---- MODULE Spec2Model ----
(***************************************************************************)
(* Model of the address search scraper (src/address_search_scraper.py and  *)
(* src/comprehensive_extraction.py): the similarity matcher, the           *)
(* normaliser _transform_for_api, the store written by                     *)
(* insert_property_data and the attempt loop of                            *)
(* search_and_scrape_property_by_address.                                  *)
(*                                                                         *)
(* Text is a sequence of characters.  A character is a one-element string; *)
(* a run of letters that no operation looks inside (a word such as "Sale") *)
(* is written as one character.                                            *)
(***************************************************************************)
EXTENDS Integers, Sequences, FiniteSets, TLC

(***************************************************************************)
(* Bounds of the model.                                                    *)
(***************************************************************************)
MaxSessions == 2

(***************************************************************************)
(* Program constants.                                                      *)
(***************************************************************************)
max_attempts == 3
ReuseThresholdPct == 85
SuggestionThresholdPct == 90
BackoffBase == 2
max_wait_attempts == 10

(***************************************************************************)
(* Python values.  None, str, the str produced by json.dumps(v), and the   *)
(* values json.loads returns.                                              *)
(***************************************************************************)
PNone == [t |-> "null"]
PStr(chars) == [t |-> "s", s |-> chars]
PJson(v) == [t |-> "j", v |-> v]
PObj(m) == [t |-> "obj", m |-> m]
PList(xs) == [t |-> "list", xs |-> xs]
PNum(n) == [t |-> "n", n |-> n]

Empty == PStr(<<>>)
EmptyObj == PObj(<<>>)
EmptyList == PList(<<>>)

\* bool(v) of a Python value
Truthy(v) ==
    CASE v.t = "null" -> FALSE
      [] v.t = "s" -> v.s # <<>>
      [] v.t = "j" -> TRUE
      [] v.t = "obj" -> DOMAIN v.m # {}
      [] v.t = "list" -> v.xs # <<>>
      [] v.t = "n" -> v.n # 0

\* d.get(key, default) of a parsed JSON object
Get(obj, key, default) == IF key \in DOMAIN obj.m THEN obj.m[key] ELSE default

\* a or b
POr(a, b) == IF Truthy(a) THEN a ELSE b

\* len(v) of a list, an object or a str
PLen(v) ==
    CASE v.t = "list" -> Len(v.xs)
      [] v.t = "obj" -> Cardinality(DOMAIN v.m)
      [] v.t = "s" -> Len(v.s)

(***************************************************************************)
(* Characters.                                                             *)
(***************************************************************************)
WhitespaceChars == {" ", "\t", "\n"}
\* str.isprintable(): the space is printable, tab and newline are not
NonPrintableChars == {"\t", "\n"}
SlashChars == {"/", "\\"}

Lower(c) ==
    CASE c = "A" -> "a"
      [] c = "B" -> "b"
      [] c = "All" -> "all"
      [] c = "Sale" -> "sale"
      [] c = "Listing" -> "listing"
      [] c = "Rental" -> "rental"
      [] c = "DA" -> "da"
      [] c = "Sold" -> "sold"
      [] c = "Listed" -> "listed"
      [] c = "Rented" -> "rented"
      [] c = "Property Valuation" -> "property valuation"
      [] c = "Rental Estimate" -> "rental estimate"
      [] c = "In Catchment" -> "in catchment"
      [] c = "All Nearby" -> "all nearby"
      [] OTHER -> c

LowerStr(s) == [i \in 1..Len(s) |-> Lower(s[i])]

RECURSIVE FilterPrintable(_)
FilterPrintable(s) ==
    IF s = <<>> THEN <<>>
    ELSE IF Head(s) \in NonPrintableChars THEN FilterPrintable(Tail(s))
    ELSE <<Head(s)>> \o FilterPrintable(Tail(s))

\* re.sub(r"\s+", " ", s)
RECURSIVE CollapseWhitespace(_)
CollapseWhitespace(s) ==
    IF s = <<>> THEN <<>>
    ELSE IF Head(s) \in WhitespaceChars
         THEN IF Tail(s) # <<>> /\ Head(Tail(s)) \in WhitespaceChars
              THEN CollapseWhitespace(Tail(s))
              ELSE <<" ">> \o CollapseWhitespace(Tail(s))
         ELSE <<Head(s)>> \o CollapseWhitespace(Tail(s))

RECURSIVE LStrip(_, _)
LStrip(s, chars) ==
    IF s # <<>> /\ Head(s) \in chars THEN LStrip(Tail(s), chars) ELSE s

RECURSIVE RStrip(_, _)
RStrip(s, chars) ==
    IF s # <<>> /\ s[Len(s)] \in chars THEN RStrip(SubSeq(s, 1, Len(s) - 1), chars) ELSE s

\* str.strip(chars)
Strip(s, chars) == RStrip(LStrip(s, chars), chars)

\* re.sub(r"/{2,}", "/", s)
RECURSIVE CollapseSlashes(_)
CollapseSlashes(s) ==
    IF s = <<>> THEN <<>>
    ELSE IF Head(s) = "/" /\ Tail(s) # <<>> /\ Head(Tail(s)) = "/"
         THEN CollapseSlashes(Tail(s))
         ELSE <<Head(s)>> \o CollapseSlashes(Tail(s))

\* the body of _clean_text for a str
CleanChars(s) ==
    CollapseSlashes(Strip(Strip(CollapseWhitespace(FilterPrintable(s)), WhitespaceChars), SlashChars))

\* _clean_text(value): a value that is not a str is returned as it is; the
\* text written by json.dumps has no slash, tab or double space in the
\* modelled values and is returned as it is
_clean_text(value) == IF value.t = "s" THEN PStr(CleanChars(value.s)) ELSE value

\* _try_parse_json(value)
_try_parse_json(value) == IF value.t = "j" THEN value.v ELSE PNone

(***************************************************************************)
(* difflib.SequenceMatcher(None, a, b).ratio(), as the pair matches*2 and  *)
(* len(a)+len(b).  Positions are 1-based, the upper ends are exclusive.    *)
(***************************************************************************)
RECURSIVE RunLen(_, _, _, _, _, _)
RunLen(a, b, i, j, ahi, bhi) ==
    IF i < ahi /\ j < bhi /\ a[i] = b[j] THEN 1 + RunLen(a, b, i + 1, j + 1, ahi, bhi) ELSE 0

\* find_longest_match: the longest block, of those the one starting earliest
\* in a, of those the one starting earliest in b
find_longest_match(a, b, alo, ahi, blo, bhi) ==
    LET cands == {<<i, j>> \in (alo..(ahi - 1)) \X (blo..(bhi - 1)) : RunLen(a, b, i, j, ahi, bhi) > 0}
    IN IF cands = {} THEN <<alo, blo, 0>>
       ELSE LET best == CHOOSE c \in cands :
                           \A d \in cands :
                               LET kc == RunLen(a, b, c[1], c[2], ahi, bhi)
                                   kd == RunLen(a, b, d[1], d[2], ahi, bhi)
                               IN \/ kc > kd
                                  \/ kc = kd /\ c[1] < d[1]
                                  \/ kc = kd /\ c[1] = d[1] /\ c[2] <= d[2]
            IN <<best[1], best[2], RunLen(a, b, best[1], best[2], ahi, bhi)>>

\* get_matching_blocks: the total size of the matching blocks
RECURSIVE MatchCount(_, _, _, _, _, _)
MatchCount(a, b, alo, ahi, blo, bhi) ==
    LET m == find_longest_match(a, b, alo, ahi, blo, bhi)
    IN IF m[3] = 0 THEN 0
       ELSE m[3] + MatchCount(a, b, alo, m[1], blo, m[2])
                 + MatchCount(a, b, m[1] + m[3], ahi, m[2] + m[3], bhi)

\* ratio(): 2.0 * matches / length, and 1.0 when both are empty
ratio(a, b) ==
    IF Len(a) + Len(b) = 0 THEN [num |-> 1, den |-> 1]
    ELSE [num |-> 2 * MatchCount(a, b, 1, Len(a) + 1, 1, Len(b) + 1), den |-> Len(a) + Len(b)]

\* r >= pct / 100
RatioAtLeast(r, pct) == 100 * r.num >= pct * r.den
\* r1 > r2
RatioGreater(r1, r2) == r1.num * r2.den > r2.num * r1.den
ZeroRatio == [num |-> 0, den |-> 1]

\* _norm(s): lower-case, collapse whitespace runs, strip; None counts as ''
_norm(v) ==
    IF v.t = "s" THEN Strip(CollapseWhitespace(LowerStr(v.s)), WhitespaceChars) ELSE <<>>

(***************************************************************************)
(* _clean_distance: _clean_text, then re.sub(r"(?i)(\d)\s*(km|m)\b",       *)
(* r"\1 \2", value).                                                       *)
(***************************************************************************)
DigitChars == {"0", "1", "2", "3", "4", "5", "6", "7", "8", "9"}
\* \w of the regular expression: letters, digits and words
NonWordChars == WhitespaceChars \cup SlashChars \cup {".", ",", "|", ":", "(", ")"}
IsWordChar(c) == c \notin NonWordChars

RECURSIVE SkipWhitespace(_, _)
SkipWhitespace(s, i) ==
    IF i <= Len(s) /\ s[i] \in WhitespaceChars THEN SkipWhitespace(s, i + 1) ELSE i

\* the unit token without the \b that ends it
UnitLenAtAnyEnd(s, j) ==
    IF j + 1 <= Len(s) /\ s[j] \in {"k", "K"} /\ s[j + 1] \in {"m", "M"} THEN 2
    ELSE IF j <= Len(s) /\ s[j] \in {"m", "M"} THEN 1
    ELSE 0

\* the length of the unit token (km|m)\b at position j, 0 when there is none
UnitLenAt(s, j) ==
    LET boundary(k) == k > Len(s) \/ ~IsWordChar(s[k])
    IN IF j + 1 <= Len(s) /\ s[j] \in {"k", "K"} /\ s[j + 1] \in {"m", "M"} /\ boundary(j + 2) THEN 2
       ELSE IF j <= Len(s) /\ s[j] \in {"m", "M"} /\ boundary(j + 1) THEN 1
       ELSE 0

RECURSIVE SpaceUnits(_, _)
SpaceUnits(s, i) ==
    IF i > Len(s) THEN <<>>
    ELSE IF s[i] \in DigitChars
         THEN LET j == SkipWhitespace(s, i + 1)
                  u == UnitLenAt(s, j)
              IN IF u > 0
                 THEN <<s[i], " ">> \o SubSeq(s, j, j + u - 1) \o SpaceUnits(s, j + u)
                 ELSE <<s[i]>> \o SpaceUnits(s, i + 1)
         ELSE <<s[i]>> \o SpaceUnits(s, i + 1)

_clean_distance(value) ==
    LET v == _clean_text(value)
    IN IF ~Truthy(v) THEN v
       ELSE IF v.t = "s" THEN PStr(SpaceUnits(v.s, 1)) ELSE v

(***************************************************************************)
(* _transform_for_api(raw).  raw maps field names to Python values.        *)
(***************************************************************************)
\* raw.get(key, '')
RawGet(raw, key) == IF key \in DOMAIN raw THEN raw[key] ELSE Empty

IsDict(v) == v.t = "obj"
IsList(v) == v.t = "list"
HasLen(v) == v.t \in {"list", "obj", "s"}

\* { _clean_text(k): _clean_text(v) for k, v in d.items() }; keys are clean
CleanDict(d) == PObj([k \in DOMAIN d.m |-> _clean_text(d.m[k])])

\* json.loads(value) raises: the value is not a str or not JSON text
LoadsRaises(value) == value.t # "j"

\* lines 79-106: the agent chosen from the JSON field or the discrete fields
AgentOf(raw) ==
    LET agent_json == RawGet(raw, "Advertising_Agent_Info_JSON")
        parsed == IF Truthy(agent_json) /\ ~LoadsRaises(agent_json) THEN agent_json.v ELSE PNone
        fromJson == IF IsList(parsed) /\ Truthy(parsed) THEN parsed.xs[1]
                    ELSE IF IsDict(parsed) THEN parsed
                    ELSE PNone
    IN IF Truthy(fromJson) THEN fromJson
       ELSE PObj([advertising_agency |-> RawGet(raw, "Advertising_Agency"),
                  advertising_agent |-> RawGet(raw, "Advertising_Agent"),
                  agent_phone |-> RawGet(raw, "Agent_Phone")])

\* agent.get raises when the chosen agent is not a mapping
AgentRaises(raw) == ~IsDict(AgentOf(raw))

AgentOut(raw) ==
    LET agent == AgentOf(raw)
    IN [agency |-> _clean_text(Get(agent, "advertising_agency", Empty)),
        name |-> _clean_text(Get(agent, "advertising_agent", Empty)),
        phone |-> _clean_text(Get(agent, "agent_phone", Empty))]

\* lines 110-130: _try_parse_json(raw) or _clean_text(raw), cleaned if a dict
AdditionalField(value) ==
    LET parsed == POr(_try_parse_json(value), _clean_text(value))
    IN IF IsDict(parsed) THEN CleanDict(parsed) ELSE parsed

\* the bullet separator joins the contacts: sep.join(contacts)
RECURSIVE JoinBullet(_)
JoinBullet(xs) ==
    IF xs = <<>> THEN <<>>
    ELSE IF Len(xs) = 1 THEN Head(xs).s
    ELSE Head(xs).s \o <<" ", "bullet", " ">> \o JoinBullet(Tail(xs))

\* str(v) of a value that is not a list
PyStr(v) == IF v.t = "s" THEN v ELSE PStr(<<"str()">>)

\* lines 132-167
HouseholdRaises(raw) ==
    LET mc == _try_parse_json(RawGet(raw, "Household_Information_Marketing_Contacts"))
        contacts == Get(mc, "Contacts", EmptyList)
    IN IsDict(mc) /\ IsList(contacts) /\ \E i \in 1..Len(contacts.xs) : contacts.xs[i].t # "s"

HouseholdOut(raw) ==
    LET owner_info_parsed == _try_parse_json(RawGet(raw, "Household_Information_Owner_Information"))
        isOwner == IsDict(owner_info_parsed)
        owner_name == IF isOwner THEN Get(owner_info_parsed, "Name", Empty) ELSE Empty
        owner_type == IF isOwner THEN Get(owner_info_parsed, "Owner Type", Empty) ELSE Empty
        current_tenure == IF isOwner THEN Get(owner_info_parsed, "Current Tenure", Empty) ELSE Empty
        marketing_contacts_parsed == _try_parse_json(RawGet(raw, "Household_Information_Marketing_Contacts"))
        contacts == Get(marketing_contacts_parsed, "Contacts", EmptyList)
        marketing_contacts_display ==
            IF IsDict(marketing_contacts_parsed)
            THEN IF IsList(contacts) THEN PStr(JoinBullet(contacts.xs)) ELSE PyStr(contacts)
            ELSE Empty
    IN [ownerType |-> _clean_text(POr(owner_type, RawGet(raw, "Owner_Type"))),
        currentTenure |-> _clean_text(POr(current_tenure, RawGet(raw, "Current_Tenure"))),
        ownerName |-> _clean_text(owner_name),
        ownerInformation |-> IF Truthy(owner_info_parsed) THEN owner_info_parsed ELSE PNone,
        marketingContacts |-> marketing_contacts_display,
        marketingContactsRaw |-> IF Truthy(marketing_contacts_parsed) THEN marketing_contacts_parsed ELSE PNone]

\* lines 170-187
ValuationJson(value) ==
    LET parsed == _try_parse_json(value)
        cleaned == IF IsDict(parsed) THEN CleanDict(parsed) ELSE parsed
    IN POr(cleaned, _clean_text(value))

ValuationOut(raw) ==
    [estimate |-> _clean_text(RawGet(raw, "Valuation_Estimate_Estimate")),
     estimateJson |-> ValuationJson(RawGet(raw, "Valuation_Estimate_Estimate_JSON")),
     rental |-> _clean_text(RawGet(raw, "Valuation_Estimate_Rental")),
     rentalJson |-> ValuationJson(RawGet(raw, "Valuation_Estimate_Rental_JSON"))]

\* lines 190-213
SchoolOut(s) ==
    LET a == Get(s, "attributes", EmptyObj)
        attrs == IF IsDict(a) THEN a ELSE EmptyObj
    IN PObj([name |-> _clean_text(Get(s, "name", Empty)),
             address |-> _clean_text(Get(s, "address", Empty)),
             distance |-> _clean_distance(Get(s, "distance", Empty)),
             attributes |-> PObj([type |-> _clean_text(Get(attrs, "type", Empty)),
                                  sector |-> _clean_text(Get(attrs, "sector", Empty)),
                                  gender |-> _clean_text(Get(attrs, "gender", Empty)),
                                  year_levels |-> _clean_text(Get(attrs, "year_levels", Empty)),
                                  enrollments |-> _clean_text(Get(attrs, "enrollments", Empty))])])

RECURSIVE CleanSchools(_)
CleanSchools(xs) ==
    IF xs = <<>> THEN <<>>
    ELSE IF ~IsDict(Head(xs)) THEN CleanSchools(Tail(xs))
    ELSE <<SchoolOut(Head(xs))>> \o CleanSchools(Tail(xs))

_parse_schools(raw, field_name) ==
    LET arr_raw == RawGet(raw, field_name)
        parsed == _try_parse_json(arr_raw)
    IN IF IsList(parsed) THEN PList(CleanSchools(parsed.xs)) ELSE _clean_text(arr_raw)

\* lines 220-324: the history bundle
history_fields_to_check ==
    <<"Property_History_All", "Property_History_Sale", "Property_History_Listing",
      "Property_History_Rental", "Property_History_DA">>

\* line 252 and line 257
IsStructuredHistory(v) ==
    /\ IsDict(v)
    /\ \/ {"events_by_type", "total_events"} \subseteq DOMAIN v.m
       \/ {"events", "events_by_type"} \subseteq DOMAIN v.m

\* lines 244-262: the first field, from position i on, holding a structured bundle
RECURSIVE FoundStructuredFrom(_, _)
FoundStructuredFrom(raw, i) ==
    IF i > Len(history_fields_to_check) THEN PNone
    ELSE LET field_data == RawGet(raw, history_fields_to_check[i])
         IN IF Truthy(field_data) /\ ~LoadsRaises(field_data) /\ IsStructuredHistory(field_data.v)
            THEN field_data.v
            ELSE FoundStructuredFrom(raw, i + 1)

found_structured_data(raw) == FoundStructuredFrom(raw, 1)

\* lines 299-316: the events one per-category field contributes
CategoryEvents(raw, field) ==
    LET field_data == RawGet(raw, field)
    IN IF Truthy(field_data) /\ ~LoadsRaises(field_data) /\ IsDict(field_data.v)
          /\ "events" \in DOMAIN field_data.v.m
       THEN field_data.v.m["events"]
       ELSE EmptyList

\* line 309: total_events += len(events); a TypeError of len is caught at 313
CategoryCount(raw, field) ==
    LET events == CategoryEvents(raw, field)
    IN IF HasLen(events) THEN PLen(events) ELSE 0

CombinedHistory(raw) ==
    PObj([total_events |-> PNum(CategoryCount(raw, "Property_History_Sale")
                                + CategoryCount(raw, "Property_History_Listing")
                                + CategoryCount(raw, "Property_History_Rental")
                                + CategoryCount(raw, "Property_History_DA")),
          events_by_type |-> PObj([sale |-> CategoryEvents(raw, "Property_History_Sale"),
                                   rental |-> CategoryEvents(raw, "Property_History_Rental"),
                                   listing |-> CategoryEvents(raw, "Property_History_Listing"),
                                   da |-> CategoryEvents(raw, "Property_History_DA"),
                                   other |-> EmptyList])])

\* lines 268-271
NormalizedHistory(found) ==
    PObj([events_by_type |-> Get(found, "events_by_type", EmptyObj),
          total_events |-> Get(found, "total_events", PNum(0))])

\* sanitized['history']
HistoryOut(raw) ==
    LET history_data == _try_parse_json(RawGet(raw, "Property_History_All"))
        found == found_structured_data(raw)
    IN IF Truthy(history_data) THEN history_data
       ELSE IF Truthy(found) THEN NormalizedHistory(found)
       ELSE CombinedHistory(raw)

\* lines 277-278 and 329-334: the logging reads history.get, the items of
\* events_by_type and the len of each of its values
HistoryRaises(raw) ==
    LET h == HistoryOut(raw)
    IN IF ~IsDict(h) THEN TRUE
       ELSE IF "events_by_type" \notin DOMAIN h.m THEN FALSE
       ELSE IF ~IsDict(h.m["events_by_type"]) THEN TRUE
       ELSE \E k \in DOMAIN h.m["events_by_type"].m : ~HasLen(h.m["events_by_type"].m[k])

\* _transform_for_api raises instead of returning
TransformRaises(raw) == AgentRaises(raw) \/ HouseholdRaises(raw) \/ HistoryRaises(raw)

\* the record _transform_for_api returns
_transform_for_api(raw) ==
    [id |-> IF "id" \in DOMAIN raw THEN raw["id"] ELSE PNone,
     propertyUrl |-> _clean_text(RawGet(raw, "Property_URL")),
     address |-> _clean_text(RawGet(raw, "Address")),
     type |-> _clean_text(RawGet(raw, "Property_Type")),
     bedrooms |-> _clean_text(RawGet(raw, "Bedrooms")),
     bathrooms |-> _clean_text(RawGet(raw, "Bathrooms")),
     carSpaces |-> _clean_text(RawGet(raw, "Car_Spaces")),
     landSize |-> _clean_text(RawGet(raw, "Land_Size")),
     floorArea |-> _clean_text(RawGet(raw, "Floor_Area")),
     lastSold |-> [price |-> _clean_text(RawGet(raw, "Last_Sold_Price")),
                   date |-> _clean_text(RawGet(raw, "Last_Sold_Date")),
                   soldBy |-> _clean_text(RawGet(raw, "Sold_By"))],
     sale |-> [landUse |-> _clean_text(RawGet(raw, "Land_Use")),
               issueDate |-> _clean_text(RawGet(raw, "Issue_Date")),
               advertisementDate |-> _clean_text(RawGet(raw, "Advertisement_Date")),
               listingDescription |-> _clean_text(RawGet(raw, "Listing_Description"))],
     agent |-> AgentOut(raw),
     additional |-> [legalDescription |-> AdditionalField(RawGet(raw, "Additional_Information_Legal_Description")),
                     features |-> AdditionalField(RawGet(raw, "Additional_Information_Property_Features")),
                     landValues |-> AdditionalField(RawGet(raw, "Additional_Information_Land_Values"))],
     household |-> HouseholdOut(raw),
     valuation |-> ValuationOut(raw),
     schools |-> [inCatchment |-> _parse_schools(raw, "Nearby_Schools_In_Catchment"),
                  allNearby |-> _parse_schools(raw, "Nearby_Schools_All_Nearby")],
     history |-> HistoryOut(raw),
     scrapedAt |-> _clean_text(RawGet(raw, "Scraping_Date"))]

(***************************************************************************)
(* The store: the tables insert_property_data writes.  A table is the      *)
(* sequence of its rows in insertion order.                                *)
(***************************************************************************)
EmptyStore ==
    [properties |-> <<>>, sale_rental_info |-> <<>>, nearby_schools |-> <<>>,
     household_info |-> <<>>, additional_info |-> <<>>, property_attributes |-> <<>>,
     property_history |-> <<>>, valuation_estimates |-> <<>>, next_id |-> 1]

\* DELETE FROM table WHERE property_id = pid
DeleteOf(table, pid) == SelectSeq(table, LAMBDA r : r.property_id # pid)

\* property_data.get(key, '')
PdGet(pd, key) == IF key \in DOMAIN pd THEN pd[key] ELSE Empty

AnyTruthy(pd, fields) == \E f \in fields : Truthy(PdGet(pd, f))

\* lines 404-435: INSERT ... ON CONFLICT (property_url) DO UPDATE ... RETURNING id
UpsertId(st, pd) ==
    LET url == PdGet(pd, "Property_URL")
        hits == {i \in 1..Len(st.properties) : st.properties[i].property_url = url}
    IN IF hits = {} THEN st.next_id ELSE st.properties[CHOOSE i \in hits : TRUE].id

\* the statement without its ON CONFLICT clause: a plain INSERT
UpsertPropertyPlainInsert(st, pd) ==
    [st EXCEPT !.properties = Append(st.properties,
                                     [id |-> st.next_id,
                                      property_url |-> PdGet(pd, "Property_URL"),
                                      address |-> PdGet(pd, "Address"),
                                      property_type |-> PdGet(pd, "Property_Type"),
                                      land_size |-> PdGet(pd, "Land_Size"),
                                      floor_area |-> PdGet(pd, "Floor_Area"),
                                      bedrooms |-> PdGet(pd, "Bedrooms"),
                                      bathrooms |-> PdGet(pd, "Bathrooms"),
                                      car_spaces |-> PdGet(pd, "Car_Spaces")]),
               !.next_id = st.next_id + 1]

UpsertProperty(st, pd) ==
    LET url == PdGet(pd, "Property_URL")
        id == UpsertId(st, pd)
        row == [id |-> id,
                property_url |-> url,
                address |-> PdGet(pd, "Address"),
                property_type |-> PdGet(pd, "Property_Type"),
                land_size |-> PdGet(pd, "Land_Size"),
                floor_area |-> PdGet(pd, "Floor_Area"),
                bedrooms |-> PdGet(pd, "Bedrooms"),
                bathrooms |-> PdGet(pd, "Bathrooms"),
                car_spaces |-> PdGet(pd, "Car_Spaces")]
    IN IF \E i \in 1..Len(st.properties) : st.properties[i].property_url = url
       THEN [st EXCEPT !.properties =
                [i \in 1..Len(st.properties) |->
                    IF st.properties[i].property_url = url THEN row ELSE st.properties[i]]]
       ELSE [st EXCEPT !.properties = Append(st.properties, row), !.next_id = st.next_id + 1]

\* lines 457-478: the first agent of the JSON field
InsertAgent(pd) ==
    LET j == PdGet(pd, "Advertising_Agent_Info_JSON")
        agent_info == IF Truthy(j) /\ ~LoadsRaises(j) THEN j.v ELSE PNone
        first_agent == IF IsList(agent_info) /\ Truthy(agent_info) THEN agent_info.xs[1]
                       ELSE IF IsDict(agent_info) THEN agent_info
                       ELSE PNone
    IN IF IsDict(first_agent)
       THEN [advertising_agency |-> Get(first_agent, "advertising_agency", Empty),
             advertising_agent |-> Get(first_agent, "advertising_agent", Empty),
             agent_phone |-> Get(first_agent, "agent_phone", Empty)]
       ELSE [advertising_agency |-> Empty, advertising_agent |-> Empty, agent_phone |-> Empty]

sale_rental_fields ==
    {"Last_Sold_Price", "Last_Sold_Date", "Sold_By", "Land_Use", "Issue_Date",
     "Advertisement_Date", "Listing_Description"}

\* lines 437-499
InsertSaleRental(st, pd, pid) ==
    IF AnyTruthy(pd, sale_rental_fields)
    THEN LET a == InsertAgent(pd)
         IN [st EXCEPT !.sale_rental_info =
                Append(DeleteOf(st.sale_rental_info, pid),
                       [property_id |-> pid,
                        last_sold_price |-> PdGet(pd, "Last_Sold_Price"),
                        last_sold_date |-> PdGet(pd, "Last_Sold_Date"),
                        sold_by |-> PdGet(pd, "Sold_By"),
                        land_use |-> PdGet(pd, "Land_Use"),
                        issue_date |-> PdGet(pd, "Issue_Date"),
                        advertisement_date |-> PdGet(pd, "Advertisement_Date"),
                        listing_description |-> PdGet(pd, "Listing_Description"),
                        advertising_agency |-> a.advertising_agency,
                        advertising_agent |-> a.advertising_agent,
                        agent_phone |-> a.agent_phone])]
    ELSE st

\* lines 515-534: the rows of the schools before the first one that raises
RECURSIVE SchoolRows(_, _, _)
SchoolRows(xs, pid, catchment_status) ==
    IF xs = <<>> THEN <<>>
    ELSE LET school == Head(xs)
             attributes == Get(school, "attributes", EmptyObj)
         IN IF ~IsDict(school) \/ ~IsDict(attributes) THEN <<>>
            ELSE <<[property_id |-> pid,
                    school_name |-> Get(school, "name", Empty),
                    school_address |-> Get(school, "address", Empty),
                    distance |-> Get(school, "distance", Empty),
                    school_type |-> Get(attributes, "type", Empty),
                    school_sector |-> Get(attributes, "sector", Empty),
                    school_gender |-> Get(attributes, "gender", Empty),
                    year_levels |-> Get(attributes, "year_levels", Empty),
                    enrollments |-> Get(attributes, "enrollments", Empty),
                    catchment_status |-> catchment_status]>>
                 \o SchoolRows(Tail(xs), pid, catchment_status)

\* lines 503-536, one school field
InsertSchools(st, pd, pid, school_field, catchment_status) ==
    LET j == PdGet(pd, school_field)
    IN IF Truthy(j) /\ ~LoadsRaises(j) /\ IsList(j.v)
       THEN [st EXCEPT !.nearby_schools =
                SelectSeq(st.nearby_schools,
                          LAMBDA r : ~(r.property_id = pid /\ r.catchment_status = catchment_status))
                \o SchoolRows(j.v.xs, pid, catchment_status)]
       ELSE st

\* lines 538-551
InsertHousehold(st, pd, pid) ==
    IF AnyTruthy(pd, {"Household_Information_Owner_Information", "Household_Information_Marketing_Contacts"})
    THEN [st EXCEPT !.household_info =
             Append(DeleteOf(st.household_info, pid),
                    [property_id |-> pid,
                     owner_information |-> PdGet(pd, "Household_Information_Owner_Information"),
                     marketing_contacts |-> PdGet(pd, "Household_Information_Marketing_Contacts")])]
    ELSE st

\* lines 553-567
InsertAdditional(st, pd, pid) ==
    IF AnyTruthy(pd, {"Additional_Information_Legal_Description",
                      "Additional_Information_Property_Features",
                      "Additional_Information_Land_Values"})
    THEN [st EXCEPT !.additional_info =
             Append(DeleteOf(st.additional_info, pid),
                    [property_id |-> pid,
                     legal_description |-> PdGet(pd, "Additional_Information_Legal_Description"),
                     property_features |-> PdGet(pd, "Additional_Information_Property_Features"),
                     land_values |-> PdGet(pd, "Additional_Information_Land_Values")])]
    ELSE st

\* lines 569-581
InsertAttributes(st, pd, pid) ==
    IF Truthy(PdGet(pd, "Property_Attributes_JSON"))
    THEN [st EXCEPT !.property_attributes =
             Append(DeleteOf(st.property_attributes, pid),
                    [property_id |-> pid, attributes_json |-> PdGet(pd, "Property_Attributes_JSON")])]
    ELSE st

\* lines 601-612: the rows of the events before the first one that raises
RECURSIVE HistoryRows(_, _, _)
HistoryRows(xs, pid, history_type) ==
    IF xs = <<>> THEN <<>>
    ELSE LET event == Head(xs)
         IN IF ~IsDict(event) THEN <<>>
            ELSE <<[property_id |-> pid,
                    history_type |-> history_type,
                    event_date |-> Get(event, "date", Empty),
                    event_description |-> Get(event, "description", Empty),
                    event_details |-> Get(event, "details", Empty)]>>
                 \o HistoryRows(Tail(xs), pid, history_type)

\* lines 592-614, one history field
InsertHistory(st, pd, pid, history_field, history_type) ==
    LET j == PdGet(pd, history_field)
    IN IF Truthy(j) /\ ~LoadsRaises(j) /\ Truthy(j.v)
       THEN LET kept == SelectSeq(st.property_history,
                                  LAMBDA r : ~(r.property_id = pid /\ r.history_type = history_type))
                events == IF IsDict(j.v) THEN Get(j.v, "events", EmptyList) ELSE EmptyList
            IN [st EXCEPT !.property_history =
                   kept \o (IF IsList(events) THEN HistoryRows(events.xs, pid, history_type) ELSE <<>>)]
       ELSE st

\* lines 617-642, one valuation field
InsertValuation(st, pd, pid, valuation_field, estimate_type) ==
    LET j == PdGet(pd, valuation_field)
    IN IF Truthy(j) /\ ~LoadsRaises(j) /\ Truthy(j.v)
       THEN LET kept == SelectSeq(st.valuation_estimates,
                                  LAMBDA r : ~(r.property_id = pid /\ r.estimate_type = estimate_type))
            IN [st EXCEPT !.valuation_estimates =
                   IF IsDict(j.v)
                   THEN Append(kept, [property_id |-> pid,
                                      estimate_type |-> estimate_type,
                                      confidence_level |-> Get(j.v, "confidence", Empty),
                                      low_value |-> Get(j.v, "low_value", Empty),
                                      estimate_value |-> Get(j.v, "estimate_value", Empty),
                                      high_value |-> Get(j.v, "high_value", Empty),
                                      rental_yield |-> Get(j.v, "rental_yield", Empty)])
                   ELSE kept]
       ELSE st

\* lines 401-646: the store after a committed insert_property_data
InsertedStore(st, pd) ==
    LET pid == UpsertId(st, pd)
        s1 == UpsertProperty(st, pd)
        s2 == InsertSaleRental(s1, pd, pid)
        s3 == InsertSchools(s2, pd, pid, "Nearby_Schools_In_Catchment", PStr(<<"In Catchment">>))
        s4 == InsertSchools(s3, pd, pid, "Nearby_Schools_All_Nearby", PStr(<<"All Nearby">>))
        s5 == InsertHousehold(s4, pd, pid)
        s6 == InsertAdditional(s5, pd, pid)
        s7 == InsertAttributes(s6, pd, pid)
        h1 == InsertHistory(s7, pd, pid, "Property_History_All", PStr(<<"All">>))
        h2 == InsertHistory(h1, pd, pid, "Property_History_Sale", PStr(<<"Sale">>))
        h3 == InsertHistory(h2, pd, pid, "Property_History_Listing", PStr(<<"Listing">>))
        h4 == InsertHistory(h3, pd, pid, "Property_History_Rental", PStr(<<"Rental">>))
        h5 == InsertHistory(h4, pd, pid, "Property_History_DA", PStr(<<"DA">>))
        v1 == InsertValuation(h5, pd, pid, "Valuation_Estimate_Estimate_JSON", PStr(<<"Property Valuation">>))
        v2 == InsertValuation(v1, pd, pid, "Valuation_Estimate_Rental_JSON", PStr(<<"Rental Estimate">>))
    IN v2

(***************************************************************************)
(* Reading a property back: the queries of lines 705-725 and 1165-1184 and *)
(* the raw mapping assembled from them.                                    *)
(***************************************************************************)
\* cursor.fetchone() or {} of SELECT * FROM table WHERE property_id = pid LIMIT 1
FirstRowOf(table, pid) ==
    LET rows == SelectSeq(table, LAMBDA r : r.property_id = pid)
    IN IF rows = <<>> THEN <<>> ELSE rows[1]

\* row.get(column, ''): a column the row does not have gives the default
RowGet(row, column) == IF column \in DOMAIN row THEN row[column] ELSE Empty

\* (v or '').lower()
LowerOr(v) == IF Truthy(v) /\ v.t = "s" THEN PStr(LowerStr(v.s)) ELSE Empty

\* event dates order as text; the modelled dates are single characters
DateRank(d) ==
    IF d.t # "s" \/ d.s = <<>> THEN 0
    ELSE CASE d.s[1] = "2023" -> 1
           [] d.s[1] = "2024" -> 2
           [] d.s[1] = "2025" -> 3
           [] OTHER -> 0

\* ORDER BY event_date DESC; rows of equal date keep their insertion order
RECURSIVE InsertByDateDesc(_, _)
InsertByDateDesc(sorted, r) ==
    IF sorted = <<>> THEN <<r>>
    ELSE IF DateRank(r.event_date) > DateRank(Head(sorted).event_date) THEN <<r>> \o sorted
    ELSE <<Head(sorted)>> \o InsertByDateDesc(Tail(sorted), r)

RECURSIVE OrderByDateDesc(_)
OrderByDateDesc(rows) ==
    IF rows = <<>> THEN <<>>
    ELSE InsertByDateDesc(OrderByDateDesc(SubSeq(rows, 1, Len(rows) - 1)), rows[Len(rows)])

\* lines 806-814 and 1266-1274
HistoryEventOf(ph) ==
    PObj([date |-> RowGet(ph, "event_date"),
          description |-> RowGet(ph, "event_description"),
          details |-> RowGet(ph, "event_details"),
          type |-> PStr(LowerStr(RowGet(ph, "history_type").s))])

EventsOfType(events, types, member) ==
    PList(SelectSeq(events, LAMBDA e : (e.m["type"].s \in types) = member))

KnownTypes == {<<"sale">>, <<"rental">>, <<"listing">>, <<"da">>}

\* lines 816-842 and 1276-1302: Property_History_All of the raw mapping
HistoryAllOf(st, pid) ==
    LET ph_rows == OrderByDateDesc(SelectSeq(st.property_history, LAMBDA r : r.property_id = pid))
        history_events == [i \in 1..Len(ph_rows) |-> HistoryEventOf(ph_rows[i])]
    IN IF history_events # <<>>
       THEN PJson(PObj([events_by_type |->
                            PObj([sale |-> EventsOfType(history_events, {<<"sale">>}, TRUE),
                                  rental |-> EventsOfType(history_events, {<<"rental">>}, TRUE),
                                  listing |-> EventsOfType(history_events, {<<"listing">>}, TRUE),
                                  da |-> EventsOfType(history_events, {<<"da">>}, TRUE),
                                  other |-> EventsOfType(history_events, KnownTypes, FALSE)]),
                        total_events |-> PNum(Len(history_events))]))
       ELSE PJson(EmptyList)

\* lines 783-803 and 1243-1263
SchoolObjOf(ns) ==
    PObj([name |-> RowGet(ns, "school_name"),
          address |-> RowGet(ns, "school_address"),
          distance |-> RowGet(ns, "distance"),
          attributes |-> PObj([type |-> RowGet(ns, "school_type"),
                               sector |-> RowGet(ns, "school_sector"),
                               gender |-> RowGet(ns, "school_gender"),
                               year_levels |-> RowGet(ns, "year_levels"),
                               enrollments |-> RowGet(ns, "enrollments")])])

SchoolsOf(st, pid, inCatchment) ==
    LET ns_rows == SelectSeq(st.nearby_schools,
                       LAMBDA r : r.property_id = pid
                                  /\ ((LowerOr(r.catchment_status) = PStr(<<"in catchment">>)) = inCatchment))
    IN PJson(PList([i \in 1..Len(ns_rows) |-> SchoolObjOf(ns_rows[i])]))

\* the last row of valuation_estimates of the property with the estimate type
LastValuationRow(st, pid, estimate_type) ==
    LET rows == SelectSeq(st.valuation_estimates,
                    LAMBDA r : r.property_id = pid /\ LowerOr(r.estimate_type) = PStr(<<estimate_type>>))
    IN IF rows = <<>> THEN <<>> ELSE rows[Len(rows)]

\* lines 766-781: the valuation sub-documents of the cache-hit path
CacheEstimateJson(st, pid) ==
    LET ve == LastValuationRow(st, pid, "property valuation")
    IN IF ve = <<>> THEN Empty
       ELSE PJson(PObj([confidence |-> RowGet(ve, "confidence_level"),
                        low_value |-> RowGet(ve, "low_value"),
                        estimate_value |-> RowGet(ve, "estimate_value"),
                        high_value |-> RowGet(ve, "high_value")]))

CacheRentalJson(st, pid) ==
    LET ve == LastValuationRow(st, pid, "rental estimate")
    IN IF ve = <<>> THEN Empty
       ELSE PJson(PObj([confidence |-> RowGet(ve, "confidence_level"),
                        low_value |-> RowGet(ve, "low_value"),
                        estimate_value |-> RowGet(ve, "estimate_value"),
                        high_value |-> RowGet(ve, "high_value"),
                        rental_yield |-> RowGet(ve, "rental_yield")]))

\* lines 1226-1240: the valuation sub-documents of the read-back path
ReadBackEstimateJson(st, pid) ==
    LET ve == LastValuationRow(st, pid, "property valuation")
    IN IF ve = <<>> THEN Empty
       ELSE PJson(PObj([confidence |-> RowGet(ve, "confidence_level"),
                        low_value |-> RowGet(ve, "low_value"),
                        mid_value |-> RowGet(ve, "mid_value"),
                        high_value |-> RowGet(ve, "high_value")]))

ReadBackRentalJson(st, pid) ==
    LET ve == LastValuationRow(st, pid, "rental estimate")
    IN IF ve = <<>> THEN Empty
       ELSE PJson(PObj([confidence |-> RowGet(ve, "confidence_level"),
                        low_value |-> RowGet(ve, "low_value"),
                        mid_value |-> RowGet(ve, "mid_value"),
                        high_value |-> RowGet(ve, "high_value")]))

\* the fields both raw mappings take from properties, sale_rental_info,
\* additional_info, household_info, property_attributes, nearby_schools and
\* property_history (lines 728-764, 782-842 and 1187-1223, 1242-1302)
FragmentFields(st, best, pid, now) ==
    LET sri == FirstRowOf(st.sale_rental_info, pid)
        ai == FirstRowOf(st.additional_info, pid)
        hi == FirstRowOf(st.household_info, pid)
        pa == FirstRowOf(st.property_attributes, pid)
    IN [id |-> PNum(pid),
        Property_URL |-> RowGet(best, "property_url"),
        Address |-> RowGet(best, "address"),
        Property_Type |-> RowGet(best, "property_type"),
        Bedrooms |-> RowGet(best, "bedrooms"),
        Bathrooms |-> RowGet(best, "bathrooms"),
        Car_Spaces |-> RowGet(best, "car_spaces"),
        Land_Size |-> RowGet(best, "land_size"),
        Floor_Area |-> RowGet(best, "floor_area"),
        Last_Sold_Price |-> RowGet(sri, "last_sold_price"),
        Last_Sold_Date |-> RowGet(sri, "last_sold_date"),
        Sold_By |-> RowGet(sri, "sold_by"),
        Land_Use |-> RowGet(sri, "land_use"),
        Issue_Date |-> RowGet(sri, "issue_date"),
        Advertisement_Date |-> RowGet(sri, "advertisement_date"),
        Listing_Description |-> RowGet(sri, "listing_description"),
        Advertising_Agency |-> RowGet(sri, "advertising_agency"),
        Advertising_Agent |-> RowGet(sri, "advertising_agent"),
        Agent_Phone |-> RowGet(sri, "agent_phone"),
        Additional_Information_Legal_Description |-> RowGet(ai, "legal_description"),
        Additional_Information_Property_Features |-> RowGet(ai, "property_features"),
        Additional_Information_Land_Values |-> RowGet(ai, "land_values"),
        Owner_Type |-> RowGet(hi, "owner_type"),
        Current_Tenure |-> RowGet(hi, "current_tenure"),
        Household_Information_Owner_Information |-> RowGet(hi, "owner_information"),
        Household_Information_Marketing_Contacts |-> RowGet(hi, "marketing_contacts"),
        Valuation_Estimate_Estimate |-> Empty,
        Valuation_Estimate_Rental |-> Empty,
        Nearby_Schools_In_Catchment |-> SchoolsOf(st, pid, TRUE),
        Nearby_Schools_All_Nearby |-> SchoolsOf(st, pid, FALSE),
        Property_Attributes_JSON |-> IF "attributes_json" \in DOMAIN pa THEN pa["attributes_json"]
                                     ELSE PJson(EmptyObj),
        Property_History_All |-> HistoryAllOf(st, pid),
        Scraping_Date |-> now]

\* f extended by the fields of g
Merge(f, g) == [k \in DOMAIN f \cup DOMAIN g |-> IF k \in DOMAIN g THEN g[k] ELSE f[k]]

\* lines 727-842: the raw mapping of the cache-hit path
CacheHitRaw(st, best, now) ==
    Merge(FragmentFields(st, best, best.id, now),
          [Valuation_Estimate_Estimate_JSON |-> CacheEstimateJson(st, best.id),
           Valuation_Estimate_Rental_JSON |-> CacheRentalJson(st, best.id)])

\* lines 1186-1302: the raw mapping of the read-back path
ReadBackRaw(st, best, now) ==
    Merge(FragmentFields(st, best, best.id, now),
          [Valuation_Estimate_Estimate_JSON |-> ReadBackEstimateJson(st, best.id),
           Valuation_Estimate_Rental_JSON |-> ReadBackRentalJson(st, best.id)])

\* SELECT * FROM properties WHERE id = pid: the rows found
PropertyRows(st, pid) == SelectSeq(st.properties, LAMBDA r : r.id = pid)

(***************************************************************************)
(* extract_comprehensive_property_data: the record built from a page.      *)
(***************************************************************************)
\* comprehensive_extraction.py lines 1018-1036: the type of a timeline event
EventType(event) ==
    LET d == Get(event, "description", Empty)
        desc == IF d.t = "s" THEN LowerStr(d.s) ELSE <<>>
    IN IF desc \in {<<"sold">>, <<"sale">>} THEN "sale"
       ELSE IF desc \in {<<"rented">>, <<"rental">>, <<"lease">>} THEN "rental"
       ELSE IF desc \in {<<"listed">>, <<"listing">>} THEN "listing"
       ELSE "other"

\* lines 979-1017: the event of a timeline item, with its type
TypedEvent(item) ==
    PObj([k \in DOMAIN item.m \cup {"type"} |->
             IF k = "type" THEN PStr(<<EventType(item)>>) ELSE item.m[k]])

\* lines 1038-1039: the events that have a date or a description
ListedEvents(items) ==
    SelectSeq([i \in 1..Len(items) |-> TypedEvent(items[i])],
              LAMBDA e : Truthy(Get(e, "date", Empty)) \/ Truthy(Get(e, "description", Empty)))

EventsTyped(items, type) ==
    SelectSeq([i \in 1..Len(items) |-> TypedEvent(items[i])], LAMBDA e : e.m["type"] = PStr(<<type>>))

FirstOrNone(xs) == IF xs = <<>> THEN PNone ELSE xs[1]

\* lines 942-1108: the column of one history tab
HistoryTabColumn(items) ==
    LET events == ListedEvents(items)
    IN IF events # <<>>
       THEN PJson(PObj([events |-> PList(events),
                        total_events |-> PNum(Len(events)),
                        last_sale |-> FirstOrNone(EventsTyped(items, "sale")),
                        last_rental |-> FirstOrNone(EventsTyped(items, "rental")),
                        last_listing |-> FirstOrNone(EventsTyped(items, "listing")),
                        events_by_type |-> PObj([sale |-> PList(EventsTyped(items, "sale")),
                                                 rental |-> PList(EventsTyped(items, "rental")),
                                                 listing |-> PList(EventsTyped(items, "listing")),
                                                 other |-> PList(EventsTyped(items, "other"))])]))
       ELSE IF items = <<>> THEN Empty ELSE PStr(<<"timeline text">>)

\* lines 25-64: the record every field of which is ''
BlankRecord(url, now) ==
    [Property_URL |-> url, Address |-> Empty, Bedrooms |-> Empty, Bathrooms |-> Empty,
     Car_Spaces |-> Empty, Land_Size |-> Empty, Floor_Area |-> Empty, Property_Type |-> Empty,
     Last_Sold_Price |-> Empty, Last_Sold_Date |-> Empty, Sold_By |-> Empty, Land_Use |-> Empty,
     Issue_Date |-> Empty, Advertisement_Date |-> Empty, Listing_Description |-> Empty,
     Advertising_Agent_Info_JSON |-> Empty, Owner_Type |-> Empty, Current_Tenure |-> Empty,
     Properties_Sold_12_Months |-> Empty,
     Property_History_All |-> Empty, Property_History_Sale |-> Empty,
     Property_History_Listing |-> Empty, Property_History_Rental |-> Empty,
     Property_History_DA |-> Empty,
     Valuation_Estimate_Estimate |-> Empty, Valuation_Estimate_Estimate_JSON |-> Empty,
     Valuation_Estimate_Rental |-> Empty, Valuation_Estimate_Rental_JSON |-> Empty,
     Nearby_Schools_In_Catchment |-> Empty, Nearby_Schools_All_Nearby |-> Empty,
     Additional_Information_Legal_Description |-> Empty,
     Additional_Information_Property_Features |-> Empty,
     Additional_Information_Land_Values |-> Empty,
     Household_Information_Owner_Information |-> Empty,
     Household_Information_Marketing_Contacts |-> Empty,
     Property_Attributes_JSON |-> Empty, Sale_Information_JSON |-> Empty,
     Scraping_Date |-> now]

T(c) == PStr(<<c>>)

\* the timeline items the pages of the model show
ItemSold == PObj([date |-> T("2025"), description |-> T("Sold"), details |-> PList(<<T("$1")>>)])
ItemListed == PObj([date |-> T("2024"), description |-> T("Listed")])
ItemLodged == PObj([date |-> T("2023"), description |-> T("DA lodged")])
ItemBare == PObj([details |-> PList(<<T("note")>>)])

SchoolNear ==
    PObj([name |-> T("School"), address |-> PStr(<<"1", " ", "a", "/">>),
          distance |-> PStr(<<"0", ".", "8", "k", "m">>),
          attributes |-> PObj([type |-> T("Primary"), sector |-> T("Government"),
                               gender |-> T("Mixed"), year_levels |-> T("K-6"),
                               enrollments |-> T("300")])])

\* a page every tab of which has content
FullPage(url, addr, now) ==
    Merge(BlankRecord(url, now),
          [Address |-> addr, Bedrooms |-> T("3"), Bathrooms |-> T("2"), Car_Spaces |-> T("1"),
           Land_Size |-> T("500m2"), Floor_Area |-> T("-"), Property_Type |-> T("House"),
           Last_Sold_Price |-> T("$1"), Last_Sold_Date |-> T("2025"), Sold_By |-> T("Agency"),
           Land_Use |-> T("Residential"),
           Advertising_Agent_Info_JSON |->
               PJson(PList(<<PObj([advertising_agency |-> T("Agency"),
                                   advertising_agent |-> T("Agent"),
                                   agent_phone |-> T("0400")])>>)),
           Property_History_All |-> HistoryTabColumn(<<ItemSold, ItemListed, ItemLodged>>),
           Property_History_Sale |-> HistoryTabColumn(<<ItemSold>>),
           Property_History_Listing |-> HistoryTabColumn(<<ItemListed>>),
           Property_History_Rental |-> T("Tab not found"),
           Property_History_DA |-> HistoryTabColumn(<<ItemLodged>>),
           Valuation_Estimate_Estimate |-> T("Low: $1 | Estimate: $2 | High: $3 | Confidence: High"),
           Valuation_Estimate_Estimate_JSON |->
               PJson(PObj([confidence |-> T("High"), low_value |-> T("$1"),
                           estimate_value |-> T("$2"), high_value |-> T("$3")])),
           Valuation_Estimate_Rental |-> T("Low: $4 | Estimate: $5 | High: $6 | Yield: 3%"),
           Valuation_Estimate_Rental_JSON |->
               PJson(PObj([rental_yield |-> T("3%"), low_value |-> T("$4"),
                           estimate_value |-> T("$5"), high_value |-> T("$6")])),
           Nearby_Schools_In_Catchment |-> PJson(PList(<<SchoolNear>>)),
           Nearby_Schools_All_Nearby |-> PJson(EmptyList),
           Additional_Information_Legal_Description |-> PJson(PObj([Lot |-> PStr(<<"1", "/", "/", "2">>)])),
           Additional_Information_Property_Features |-> T("Not available"),
           Household_Information_Owner_Information |->
               PJson(PObj(("Name" :> T("Owner")) @@ ("Owner Type" :> T("Private")))),
           Household_Information_Marketing_Contacts |->
               PJson(PObj([Contacts |-> PList(<<T("Do Not Mail"), T("Do Not Call")>>)])),
           Property_Attributes_JSON |-> PJson(PObj([bedrooms |-> T("3")]))])

\* a page whose tabs are missing
SparsePage(url, addr, now) ==
    Merge(BlankRecord(url, now),
          [Address |-> addr, Bedrooms |-> T("-"), Bathrooms |-> T("-"), Car_Spaces |-> T("-"),
           Property_History_All |-> T("Tab not found"),
           Property_History_Sale |-> T("Tab not found"),
           Valuation_Estimate_Estimate |-> T("Tab not available"),
           Valuation_Estimate_Rental |-> T("Not available"),
           Nearby_Schools_In_Catchment |-> T("Tab not available"),
           Property_Attributes_JSON |-> PJson(PObj([bedrooms |-> T("-")]))])

(***************************************************************************)
(* The inputs of the model.                                                *)
(***************************************************************************)
AddrABC == PStr(<<"a", "b", "c">>)
AddrABCD == PStr(<<"a", "b", "c", "d">>)
AddrUpper == PStr(<<"A", "b", " ", "c">>)

\* the addresses a caller searches for
Queries == {AddrABC, AddrABCD}

\* the texts of the first autocomplete option
Suggestions == {AddrABC, AddrABCD}

\* the similarity values GetMostSimilarProperty reports, in hundredths
DbScores == {84, 85, 87}

\* time.strftime at the n-th call of the session function
Stamps == <<"t1", "t2", "t3", "t4">>
Now(n) == T(Stamps[n])

\* lines 71-89: a page on which no selector finds an address or anything else
NoAddressPage(url, now) == BlankRecord(url, now)

\* the records extraction can return for the page the browser shows
Pages(now) ==
    {FullPage(T("u1"), AddrABC, now), SparsePage(T("u1"), AddrABC, now),
     FullPage(T("u2"), AddrUpper, now), NoAddressPage(T("u1"), now)}

(***************************************************************************)
(* The state of search_and_scrape_property_by_address.                     *)
(***************************************************************************)
VARIABLES
    pc,             \* the position in the function
    sessions,       \* the number of calls made so far
    address,        \* the argument of the call
    store,          \* the database
    best,           \* the row the cache check matched, <<>> if none or once scraping began
    best_ratio,     \* its similarity
    cache_raised,   \* the cache check has just ended in its exception handler
    attempt,        \* the loop variable, from 0
    wait_attempt,   \* the counter of the search bar readiness loop
    last_error,     \* the last error recorded and the attempt that recorded it
    open_drivers,   \* the browser sessions created and not quit
    opened,         \* the browser sessions created by this call
    driver_calls,   \* a call to the browser was made by this call
    option_ratio,   \* the similarity of the first option, once computed
    sleeps,         \* the backoff delays slept by this call, in seconds
    property_data,  \* the record extraction returned
    property_id,    \* the id insert_property_data returned
    steps,          \* the data steps the current attempt completed
    swallowed,      \* an exception of a step of the current attempt was only logged
    result,         \* the value returned
    view,           \* what the results view shows once an option was clicked
    raw_arg,        \* the argument of a call of _transform_for_api on its own
    sanitized,      \* the record that call returned
    args,           \* the arguments of a call of a text or matching function on its own
    ret             \* the value that call returned

vars == <<pc, sessions, address, store, best, best_ratio, cache_raised, attempt, wait_attempt,
          last_error, open_drivers, opened, driver_calls, option_ratio, sleeps, property_data,
          property_id, steps, swallowed, result, view, raw_arg, sanitized, args, ret>>

NoError == [attempt |-> 0, error |-> "None"]
NoRatio == [num |-> 0, den |-> 0]
NoResult == [success |-> FALSE, message |-> [text |-> "", detail |-> ""], data |-> PNone]

Envelope(success, text, detail, data) ==
    [success |-> success, message |-> [text |-> text, detail |-> detail], data |-> data]

MsgFromDb == "Property data loaded from database"
MsgScraped == "Property data scraped, saved, and retrieved from database successfully"
MsgNotFound == "Address not found. Please check the address and try again."
MsgLowSimilarity == "Top suggestion didn't match input sufficiently"
MsgAmbiguous == "Please write complete and accurate address"
MsgExhausted == "Error during scraping after max_attempts attempts"

\* lines 659-671: no call was made yet
NoSession ==
    /\ sessions = 0
    /\ address = Empty
    /\ store = EmptyStore
    /\ best = <<>>
    /\ best_ratio = ZeroRatio
    /\ cache_raised = FALSE
    /\ attempt = 0
    /\ wait_attempt = 0
    /\ last_error = NoError
    /\ open_drivers = 0
    /\ opened = 0
    /\ driver_calls = FALSE
    /\ option_ratio = NoRatio
    /\ sleeps = <<>>
    /\ property_data = PNone
    /\ property_id = 0
    /\ steps = <<>>
    /\ swallowed = FALSE
    /\ result = NoResult
    /\ view = "none"

Init ==
    /\ pc = "idle"
    /\ NoSession
    /\ raw_arg = <<>>
    /\ sanitized = PNone
    /\ args = PNone
    /\ ret = PNone

\* lines 659-671: a call of the function; the state of an earlier call is gone
Call ==
    /\ pc \in {"idle", "done", "raised"}
    /\ sessions < MaxSessions
    /\ \E a \in Queries : address' = a
    /\ sessions' = sessions + 1
    /\ pc' = "check_cache"
    /\ best' = <<>>
    /\ best_ratio' = ZeroRatio
    /\ cache_raised' = FALSE
    /\ attempt' = 0
    /\ wait_attempt' = 0
    /\ last_error' = NoError
    /\ opened' = 0
    /\ driver_calls' = FALSE
    /\ option_ratio' = NoRatio
    /\ sleeps' = <<>>
    /\ property_data' = PNone
    /\ property_id' = 0
    /\ steps' = <<>>
    /\ swallowed' = FALSE
    /\ result' = NoResult
    /\ view' = "none"
    /\ UNCHANGED <<args, ret, raw_arg, sanitized, store, open_drivers>>

\* lines 679-685: the row and the similarity the database function reports
DbSideMatches(st) ==
    {[best |-> st.properties[i], best_ratio |-> [num |-> s, den |-> 100]] :
        i \in 1..Len(st.properties), s \in DbScores}

\* the matcher with ratio >= best_ratio in place of ratio > best_ratio
RECURSIVE FallbackFromLastSeen(_, _, _, _)
FallbackFromLastSeen(rows, q, i, m) ==
    IF i > Len(rows) THEN m
    ELSE LET r == ratio(_norm(q), _norm(RowGet(rows[i], "address")))
         IN IF ~RatioGreater(m.best_ratio, r)
            THEN FallbackFromLastSeen(rows, q, i + 1, [best |-> rows[i], best_ratio |-> r])
            ELSE FallbackFromLastSeen(rows, q, i + 1, m)

\* lines 692-698: the in-process matcher over the rows from position i on
RECURSIVE FallbackFrom(_, _, _, _)
FallbackFrom(rows, q, i, m) ==
    IF i > Len(rows) THEN m
    ELSE LET r == ratio(_norm(q), _norm(RowGet(rows[i], "address")))
         IN IF RatioGreater(r, m.best_ratio)
            THEN FallbackFrom(rows, q, i + 1, [best |-> rows[i], best_ratio |-> r])
            ELSE FallbackFrom(rows, q, i + 1, m)

FallbackMatch(st, q) == FallbackFrom(st.properties, q, 1, [best |-> <<>>, best_ratio |-> ZeroRatio])

\* the results the lookup of lines 674-698 can have
LookupOutcomes(st, q) == DbSideMatches(st) \cup {FallbackMatch(st, q)}

\* the test of line 699 with the threshold of line 1018
IsReusableAt90(m) == m.best # <<>> /\ RatioAtLeast(m.best_ratio, SuggestionThresholdPct)

\* line 699: if best and best_ratio >= 0.85
IsReusable(m) == m.best # <<>> /\ RatioAtLeast(m.best_ratio, ReuseThresholdPct)

\* lines 699-851: the lookup found a reusable row and every read succeeded
CacheHit ==
    /\ pc = "check_cache"
    /\ \E m \in LookupOutcomes(store, address) :
           LET raw == CacheHitRaw(store, m.best, Now(sessions))
           IN /\ IsReusable(m)
              /\ ~TransformRaises(raw)
              /\ best' = m.best
              /\ best_ratio' = m.best_ratio
              /\ result' = Envelope(TRUE, MsgFromDb, "", _transform_for_api(raw))
    /\ pc' = "done"
    /\ UNCHANGED <<args, ret, raw_arg, sanitized, view, sessions, address, store, cache_raised,
                   attempt, wait_attempt, last_error, open_drivers, opened, driver_calls,
                   option_ratio, sleeps, property_data, property_id, steps, swallowed>>

\* lines 699, 856: the lookup found no reusable row
CacheMiss ==
    /\ pc = "check_cache"
    /\ \E m \in LookupOutcomes(store, address) :
           /\ ~IsReusable(m)
           /\ best' = m.best
           /\ best_ratio' = m.best_ratio
    /\ pc' = "create_driver"
    /\ UNCHANGED <<args, ret, raw_arg, sanitized, view, sessions, address, store, cache_raised,
                   attempt, wait_attempt, last_error, open_drivers, opened, driver_calls,
                   option_ratio, sleeps, property_data, property_id, steps, swallowed, result>>

\* the handler of the lookup returning a failure instead of going on
CacheLookupRaisesAndReturns ==
    /\ pc = "check_cache"
    /\ cache_raised' = TRUE
    /\ last_error' = [attempt |-> 0, error |-> "lookup error"]
    /\ result' = Envelope(FALSE, MsgExhausted, "lookup error", PNone)
    /\ pc' = "done"
    /\ UNCHANGED <<args, ret, raw_arg, sanitized, view, sessions, address, store, best,
                   best_ratio, attempt, wait_attempt, open_drivers, opened,
                   driver_calls, option_ratio, sleeps, property_data, property_id, steps,
                   swallowed>>

\* lines 675-698, 852-854: the connection or a lookup query raises, or the
\* database function returns no row and best is unbound at line 699
CacheLookupRaises ==
    /\ pc = "check_cache"
    /\ cache_raised' = TRUE
    /\ pc' = "create_driver"
    /\ UNCHANGED <<args, ret, raw_arg, sanitized, view, sessions, address, store, best,
                   best_ratio, attempt, wait_attempt, last_error, open_drivers, opened,
                   driver_calls, option_ratio, sleeps, property_data, property_id, steps,
                   swallowed, result>>

\* lines 705-725, 846, 852-854: a reusable row was found and a fragment query
\* or _transform_for_api raises
CacheHitRaises ==
    /\ pc = "check_cache"
    /\ \E m \in LookupOutcomes(store, address) :
           /\ IsReusable(m)
           /\ best' = m.best
           /\ best_ratio' = m.best_ratio
    /\ cache_raised' = TRUE
    /\ pc' = "create_driver"
    /\ UNCHANGED <<args, ret, raw_arg, sanitized, view, sessions, address, store, attempt,
                   wait_attempt, last_error, open_drivers, opened, driver_calls, option_ratio,
                   sleeps, property_data, property_id, steps, swallowed, result>>

(***************************************************************************)
(* The attempt loop, lines 856-1343.                                       *)
(***************************************************************************)
\* the handler with a loop that runs while attempt <= max_attempts
AttemptFailedOneMore(e) ==
    /\ last_error' = [attempt |-> attempt + 1, error |-> e]
    /\ wait_attempt' = 0
    /\ option_ratio' = NoRatio
    /\ property_data' = PNone
    /\ property_id' = 0
    /\ steps' = <<>>
    /\ swallowed' = FALSE
    /\ view' = "none"
    /\ open_drivers' = open_drivers - 1
    /\ sleeps' = Append(sleeps, BackoffBase * (attempt + 1))
    /\ attempt' = attempt + 1
    /\ IF attempt + 1 <= max_attempts
       THEN pc' = "create_driver" /\ result' = result
       ELSE pc' = "done" /\ result' = Envelope(FALSE, MsgExhausted, e, PNone)

\* last_error = e; driver.quit(); time.sleep(2 * (attempt + 1)); continue
\* and, when the loop is over, the return of lines 1338-1343.  The locals of
\* the attempt are written before they are read again and are cleared here.
AttemptFailed(e) ==
    /\ last_error' = [attempt |-> attempt + 1, error |-> e]
    /\ wait_attempt' = 0
    /\ option_ratio' = NoRatio
    /\ property_data' = PNone
    /\ property_id' = 0
    /\ steps' = <<>>
    /\ swallowed' = FALSE
    /\ view' = "none"
    /\ open_drivers' = open_drivers - 1
    /\ sleeps' = Append(sleeps, BackoffBase * (attempt + 1))
    /\ attempt' = attempt + 1
    /\ IF attempt + 1 < max_attempts
       THEN pc' = "create_driver" /\ result' = result
       ELSE pc' = "done" /\ result' = Envelope(FALSE, MsgExhausted, e, PNone)

\* driver.quit() and the return of an envelope
QuitAndReturn(envelope) ==
    /\ open_drivers' = open_drivers - 1
    /\ result' = envelope
    /\ pc' = "done"

\* lines 857-868: a fresh browser session for the attempt.  The outcome of
\* the cache check is not read again: best is next written at line 1160.
CreateDriver ==
    /\ pc = "create_driver"
    /\ open_drivers' = open_drivers + 1
    /\ opened' = opened + 1
    /\ driver_calls' = TRUE
    /\ best' = <<>>
    /\ best_ratio' = ZeroRatio
    /\ cache_raised' = FALSE
    /\ pc' = "login"
    /\ UNCHANGED <<args, ret, raw_arg, sanitized, view, sessions, address, store, attempt,
                   wait_attempt, last_error, option_ratio, sleeps, property_data, property_id,
                   steps, swallowed, result>>

\* line 866 raises, or lines 867-868 raise once the session exists; neither
\* is inside a try
CreateDriverRaises ==
    /\ pc = "create_driver"
    /\ \E created \in BOOLEAN :
           /\ open_drivers' = IF created THEN open_drivers + 1 ELSE open_drivers
           /\ opened' = IF created THEN opened + 1 ELSE opened
           /\ driver_calls' = (driver_calls \/ created)
    /\ pc' = "raised"
    /\ UNCHANGED <<args, ret, raw_arg, sanitized, view, sessions, address, store, best,
                   best_ratio, cache_raised, attempt, wait_attempt, last_error, option_ratio,
                   sleeps, property_data, property_id, steps, swallowed, result>>

\* lines 870-899: the login; its exception is logged and the attempt goes on
Login ==
    /\ pc = "login"
    /\ driver_calls' = TRUE
    /\ \E raised \in BOOLEAN : swallowed' = (swallowed \/ raised)
    /\ pc' = "search_bar"
    /\ UNCHANGED <<args, ret, raw_arg, sanitized, view, sessions, address, store, best,
                   best_ratio, cache_raised, attempt, wait_attempt, last_error, open_drivers,
                   opened, option_ratio, sleeps, property_data, property_id, steps, result>>

\* lines 923-925: the wait for the search input
FindSearchBar ==
    /\ pc = "search_bar"
    /\ pc' = "ready_loop"
    /\ UNCHANGED <<args, ret, raw_arg, sanitized, view, sessions, address, store, best,
                   best_ratio, cache_raised, attempt, wait_attempt, last_error, open_drivers,
                   opened, driver_calls, option_ratio, sleeps, property_data, property_id, steps,
                   swallowed, result>>

\* lines 930-939: one pass of the readiness loop that finds the bar not ready
SearchBarNotReady ==
    /\ pc = "ready_loop"
    /\ wait_attempt < max_wait_attempts
    /\ wait_attempt' = wait_attempt + 1
    /\ UNCHANGED <<args, ret, raw_arg, sanitized, view, pc, sessions, address, store, best,
                   best_ratio, cache_raised, attempt, last_error, open_drivers, opened,
                   driver_calls, option_ratio, sleeps, property_data, property_id, steps,
                   swallowed, result>>

\* lines 931-933 and 941-967: the bar is ready, or the waits are used up, and
\* the address is typed; wait_attempt is not read again
TypeAddress ==
    /\ pc = "ready_loop"
    /\ wait_attempt' = 0
    /\ pc' = "dropdown"
    /\ UNCHANGED <<args, ret, raw_arg, sanitized, view, sessions, address, store, best,
                   best_ratio, cache_raised, attempt, last_error, open_drivers, opened,
                   driver_calls, option_ratio, sleeps, property_data, property_id, steps,
                   swallowed, result>>

\* lines 969-974: a call of lines 923-967 raises
AddressEntryRaises ==
    /\ pc \in {"search_bar", "ready_loop"}
    /\ AttemptFailed("address entry error")
    /\ UNCHANGED <<args, ret, raw_arg, sanitized, sessions, address, store, best, best_ratio,
                   cache_raised, opened, driver_calls>>

\* lines 1008-1015: the similarity of the typed address and the first option
OptionRatio(input, option_text) == ratio(_norm(input), _norm(option_text))

\* no option handled as the failure of the attempt
DropdownEmptyRetried ==
    /\ pc = "dropdown"
    /\ AttemptFailed(MsgNotFound)
    /\ UNCHANGED <<args, ret, raw_arg, sanitized, sessions, address, store, best, best_ratio,
                   cache_raised, opened, driver_calls>>

\* lines 982-989 and 998-1005: no option, or the first option never appears
DropdownEmpty ==
    /\ pc = "dropdown"
    /\ QuitAndReturn(Envelope(FALSE, MsgNotFound, "", PNone))
    /\ UNCHANGED <<args, ret, raw_arg, sanitized, view, sessions, address, store, best,
                   best_ratio, cache_raised, attempt, wait_attempt, last_error, opened,
                   driver_calls, option_ratio, sleeps, property_data, property_id, steps,
                   swallowed>>

\* lines 1018-1025: the first option is not close enough to the input
DropdownRejected ==
    /\ pc = "dropdown"
    /\ \E s \in Suggestions :
           /\ ~RatioAtLeast(OptionRatio(address, s), SuggestionThresholdPct)
           /\ option_ratio' = OptionRatio(address, s)
    /\ QuitAndReturn(Envelope(FALSE, MsgLowSimilarity, "similarity", PNone))
    /\ UNCHANGED <<args, ret, raw_arg, sanitized, view, sessions, address, store, best,
                   best_ratio, cache_raised, attempt, wait_attempt, last_error, opened,
                   driver_calls, sleeps, property_data, property_id, steps, swallowed>>

\* what the results view can show after the click: the property, the
\* 'results for ...' marker, or a page whose text cannot be read
Views == {"clear", "marker", "unreadable"}

\* the click of an option that is only 0.80 similar
DropdownSelectedAt80 ==
    /\ pc = "dropdown"
    /\ \E s \in Suggestions :
           /\ RatioAtLeast(OptionRatio(address, s), 80)
           /\ option_ratio' = OptionRatio(address, s)
    /\ steps' = Append(steps, "select")
    /\ \E v \in Views : view' = v
    /\ pc' = "ambiguity"
    /\ UNCHANGED <<args, ret, raw_arg, sanitized, sessions, address, store, best, best_ratio,
                   cache_raised, attempt, wait_attempt, last_error, open_drivers, opened,
                   driver_calls, sleeps, property_data, property_id, swallowed, result>>

\* lines 1027-1030: the validated first option is clicked
DropdownSelected ==
    /\ pc = "dropdown"
    /\ \E s \in Suggestions :
           /\ RatioAtLeast(OptionRatio(address, s), SuggestionThresholdPct)
           /\ option_ratio' = OptionRatio(address, s)
    /\ steps' = Append(steps, "select")
    /\ \E v \in Views : view' = v
    /\ pc' = "ambiguity"
    /\ UNCHANGED <<args, ret, raw_arg, sanitized, sessions, address, store, best, best_ratio,
                   cache_raised, attempt, wait_attempt, last_error, open_drivers, opened,
                   driver_calls, sleeps, property_data, property_id, swallowed, result>>

\* lines 1031-1036: reading the options raises, or the click of the
\* validated option raises
DropdownRaises ==
    /\ pc = "dropdown"
    /\ AttemptFailed("dropdown error")
    /\ UNCHANGED <<args, ret, raw_arg, sanitized, sessions, address, store, best, best_ratio,
                   cache_raised, opened, driver_calls>>

\* the marker handled as the failure of the attempt
AmbiguityDetectedRetried ==
    /\ pc = "ambiguity"
    /\ view = "marker"
    /\ AttemptFailed(MsgAmbiguous)
    /\ UNCHANGED <<args, ret, raw_arg, sanitized, sessions, address, store, best, best_ratio,
                   cache_raised, opened, driver_calls>>

\* lines 1058-1067, 1086-1093, 1108-1115: a probe reads the marker
AmbiguityDetected ==
    /\ pc = "ambiguity"
    /\ view = "marker"
    /\ QuitAndReturn(Envelope(FALSE, MsgAmbiguous, "", PNone))
    /\ UNCHANGED <<args, ret, raw_arg, sanitized, view, sessions, address, store, best,
                   best_ratio, cache_raised, attempt, wait_attempt, last_error, opened,
                   driver_calls, option_ratio, sleeps, property_data, property_id, steps,
                   swallowed>>

\* lines 1094-1095, 1116-1123: no probe reads the marker; a probe that
\* raises is logged and the attempt goes on
AmbiguityClear ==
    /\ pc = "ambiguity"
    /\ view # "marker"
    /\ swallowed' = (swallowed \/ view = "unreadable")
    /\ pc' = "wait_notes"
    /\ UNCHANGED <<args, ret, raw_arg, sanitized, view, sessions, address, store, best,
                   best_ratio, cache_raised, attempt, wait_attempt, last_error, open_drivers,
                   opened, driver_calls, option_ratio, sleeps, property_data, property_id, steps,
                   result>>

\* lines 1125-1137: the wait for the results; a timeout or an exception is
\* logged and the attempt goes on
WaitPropertyNotes ==
    /\ pc = "wait_notes"
    /\ \E raised \in BOOLEAN : swallowed' = (swallowed \/ raised)
    /\ pc' = "read_url"
    /\ UNCHANGED <<args, ret, raw_arg, sanitized, view, sessions, address, store, best,
                   best_ratio, cache_raised, attempt, wait_attempt, last_error, open_drivers,
                   opened, driver_calls, option_ratio, sleeps, property_data, property_id, steps,
                   result>>

\* line 1140: driver.current_url
ReadUrl ==
    /\ pc = "read_url"
    /\ pc' = "extract"
    /\ UNCHANGED <<args, ret, raw_arg, sanitized, view, sessions, address, store, best,
                   best_ratio, cache_raised, attempt, wait_attempt, last_error, open_drivers,
                   opened, driver_calls, option_ratio, sleeps, property_data, property_id, steps,
                   swallowed, result>>

\* line 1140 raises; the statement is not inside a try
ReadUrlRaises ==
    /\ pc = "read_url"
    /\ pc' = "raised"
    /\ UNCHANGED <<args, ret, raw_arg, sanitized, view, sessions, address, store, best,
                   best_ratio, cache_raised, attempt, wait_attempt, last_error, open_drivers,
                   opened, driver_calls, option_ratio, sleeps, property_data, property_id, steps,
                   swallowed, result>>

\* line 1143: extraction returns a record
Extract ==
    /\ pc = "extract"
    /\ \E pd \in Pages(Now(sessions)) : property_data' = pd
    /\ steps' = Append(steps, "extract")
    /\ pc' = "persist"
    /\ UNCHANGED <<args, ret, raw_arg, sanitized, view, sessions, address, store, best,
                   best_ratio, cache_raised, attempt, wait_attempt, last_error, open_drivers,
                   opened, driver_calls, option_ratio, sleeps, property_id, swallowed, result>>

\* lines 1331-1336: extraction returns None
ExtractFails ==
    /\ pc = "extract"
    /\ AttemptFailed("Failed to extract property data")
    /\ UNCHANGED <<args, ret, raw_arg, sanitized, sessions, address, store, best, best_ratio,
                   cache_raised, opened, driver_calls>>

\* lines 1148-1151: insert_property_data commits and returns the id
Persist ==
    /\ pc = "persist"
    /\ store' = InsertedStore(store, property_data)
    /\ property_id' = UpsertId(store, property_data)
    /\ steps' = Append(steps, "persist")
    /\ pc' = "read_back"
    /\ UNCHANGED <<args, ret, raw_arg, sanitized, view, sessions, address, best, best_ratio,
                   cache_raised, attempt, wait_attempt, last_error, open_drivers, opened,
                   driver_calls, option_ratio, sleeps, property_data, swallowed, result>>

\* lines 397-399, 648-651, 1325-1330: no connection, or a statement raises
\* and the transaction is rolled back; insert_property_data returns None
PersistFails ==
    /\ pc = "persist"
    /\ AttemptFailed("Failed to store property in database")
    /\ UNCHANGED <<args, ret, raw_arg, sanitized, sessions, address, store, best, best_ratio,
                   cache_raised, opened, driver_calls>>

\* the data of a successful attempt taken from the extracted record
ScrapedDataInMemory(st, pid, pd, now) == _transform_for_api(pd)

\* lines 1306-1312: the data returned by a successful attempt
ScrapedData(st, pid, pd, now) == _transform_for_api(ReadBackRaw(st, PropertyRows(st, pid)[1], now))

\* lines 1155-1312: the record is read back, normalised and returned
ReadBack ==
    /\ pc = "read_back"
    /\ PropertyRows(store, property_id) # <<>>
    /\ ~TransformRaises(ReadBackRaw(store, PropertyRows(store, property_id)[1], Now(sessions)))
    /\ steps' = Append(steps, "readback")
    /\ QuitAndReturn(Envelope(TRUE, MsgScraped, "",
                              ScrapedData(store, property_id, property_data, Now(sessions))))
    /\ UNCHANGED <<args, ret, raw_arg, sanitized, view, sessions, address, store, best,
                   best_ratio, cache_raised, attempt, wait_attempt, last_error, opened,
                   driver_calls, option_ratio, sleeps, property_data, property_id, swallowed>>

\* lines 1319-1324: the connection, a query or _transform_for_api raises
ReadBackRaises ==
    /\ pc = "read_back"
    /\ AttemptFailed("read back error")
    /\ UNCHANGED <<args, ret, raw_arg, sanitized, sessions, address, store, best, best_ratio,
                   cache_raised, opened, driver_calls>>

Next ==
    \/ Call
    \/ CacheHit
    \/ CacheMiss
    \/ CacheLookupRaises
    \/ CacheHitRaises
    \/ CreateDriver
    \/ CreateDriverRaises
    \/ Login
    \/ FindSearchBar
    \/ SearchBarNotReady
    \/ TypeAddress
    \/ AddressEntryRaises
    \/ DropdownEmpty
    \/ DropdownRejected
    \/ DropdownSelected
    \/ DropdownRaises
    \/ AmbiguityDetected
    \/ AmbiguityClear
    \/ WaitPropertyNotes
    \/ ReadUrl
    \/ ReadUrlRaises
    \/ Extract
    \/ ExtractFails
    \/ Persist
    \/ PersistFails
    \/ ReadBack
    \/ ReadBackRaises

Spec == Init /\ [][Next]_vars

(***************************************************************************)
(* _transform_for_api on its own: the raw mappings it is applied to, and   *)
(* the call.                                                               *)
(***************************************************************************)
\* the five categories with one sale event
BundleOf(sale_events) ==
    PObj([sale |-> PList(sale_events), rental |-> EmptyList, listing |-> EmptyList,
          da |-> EmptyList, other |-> EmptyList])

\* sales_scraping.py lines 187-289: the column the older scraper writes for a
\* history tab, the events with a summary, or '{}' when the tab has none
extract_property_history_json(items) ==
    LET events == ListedEvents(items)
    IN IF events # <<>>
       THEN PJson(PObj([events |-> PList(events),
                        summary |-> PObj([total_events |-> PNum(Len(events)),
                                          last_sale |-> FirstOrNone(EventsTyped(items, "sale")),
                                          last_rental |-> FirstOrNone(EventsTyped(items, "rental")),
                                          last_listing |-> FirstOrNone(EventsTyped(items, "listing"))])]))
       ELSE PJson(EmptyObj)

\* the values of the Property_History_All field: absent, the text '[]' of
\* lines 762 and 1215, a bundle as lines 817-820 write it, a bundle whose
\* count is not the count of its lists, a bundle with the flat list of
\* comprehensive_extraction.py, a tab column without a count, a text that
\* is not JSON, a JSON list, and the column of the older scraper
HistoryAllInputs ==
    {PNone,
     extract_property_history_json(<<ItemSold>>),
     PJson(EmptyList),
     PJson(PObj([events_by_type |-> BundleOf(<<ItemSold>>), total_events |-> PNum(1)])),
     PJson(PObj([events_by_type |-> BundleOf(<<ItemSold>>), total_events |-> PNum(7)])),
     PJson(PObj([events_by_type |-> BundleOf(<<ItemSold>>), total_events |-> PNum(1),
                 events |-> PList(<<ItemSold>>)])),
     PJson(PObj([events |-> PList(<<ItemSold>>), events_by_type |-> BundleOf(<<ItemSold, ItemBare>>)])),
     T("Tab not found"),
     PJson(PList(<<ItemSold>>))}

\* the values of a per-category field
HistorySaleInputs ==
    {PNone,
     PJson(PObj([events |-> PList(<<ItemSold>>)])),
     PJson(PObj([events |-> PList(<<ItemSold>>), events_by_type |-> BundleOf(<<ItemSold, ItemBare>>)])),
     T("Tab not found")}

HistoryRentalInputs == {PNone, PJson(PObj([events |-> PList(<<ItemListed, ItemLodged>>)]))}
HistoryListingInputs == {PNone, PJson(PList(<<ItemListed>>))}
HistoryDAInputs == {PNone, PJson(PObj([events |-> PNum(5)]))}

\* a raw mapping holds the fields that are present
RawOf(all, sale, rental, listing, da) ==
    LET fields == [Property_History_All |-> all, Property_History_Sale |-> sale,
                   Property_History_Rental |-> rental, Property_History_Listing |-> listing,
                   Property_History_DA |-> da, Scraping_Date |-> T("t1")]
        present == {k \in DOMAIN fields : fields[k] # PNone}
    IN [k \in present |-> fields[k]]

RawInputs ==
    {RawOf(all, sale, rental, listing, da) :
        all \in HistoryAllInputs, sale \in HistorySaleInputs, rental \in HistoryRentalInputs,
        listing \in HistoryListingInputs, da \in HistoryDAInputs}
    \cup Pages(Now(1))

InitTransform ==
    /\ pc = "transform"
    /\ NoSession
    /\ raw_arg \in RawInputs
    /\ sanitized = PNone
    /\ args = PNone
    /\ ret = PNone

\* lines 49-338: the call returns the record
Transform ==
    /\ pc = "transform"
    /\ ~TransformRaises(raw_arg)
    /\ sanitized' = _transform_for_api(raw_arg)
    /\ pc' = "returned"
    /\ UNCHANGED <<args, ret, raw_arg, view, sessions, address, store, best, best_ratio,
                   cache_raised, attempt, wait_attempt, last_error, open_drivers, opened,
                   driver_calls, option_ratio, sleeps, property_data, property_id, steps,
                   swallowed, result>>

\* lines 85-106, 151, 277-278, 329-334: a statement outside every try raises
TransformRaised ==
    /\ pc = "transform"
    /\ TransformRaises(raw_arg)
    /\ pc' = "transform_raised"
    /\ UNCHANGED <<args, ret, raw_arg, sanitized, view, sessions, address, store, best,
                   best_ratio, cache_raised, attempt, wait_attempt, last_error, open_drivers,
                   opened, driver_calls, option_ratio, sleeps, property_data, property_id, steps,
                   swallowed, result>>

NextTransform == Transform \/ TransformRaised

SpecTransform == InitTransform /\ [][NextTransform]_vars

(***************************************************************************)
(* _clean_text and _clean_distance on their own: the strings they are      *)
(* applied to, the call, and the call on what the first call returned.     *)
(***************************************************************************)
MaxTextLen == 4

TextAlphabet == {"a", " ", "/", "\t", "5", "k", "m"}

\* the distances of the school lists and the texts of the page fields
TextExamples ==
    {<<"0", ".", "8", "2", "k", "m">>, <<"1", ".", "5", " ", "M">>, <<"5", "m", "i", "n">>,
     <<"5", "K", "M">>, <<"1", ".", "5", "k", "m", " ", "/", " ", "8", "m">>}

TextInputs == {PStr(s) : s \in UNION {[1..n -> TextAlphabet] : n \in 0..MaxTextLen} \cup TextExamples}

InitClean ==
    /\ pc = "clean"
    /\ NoSession
    /\ raw_arg = <<>>
    /\ sanitized = PNone
    /\ args \in TextInputs
    /\ ret = PNone

\* lines 21-31: _clean_text(value)
CleanText ==
    /\ pc = "clean"
    /\ ret' = _clean_text(args)
    /\ pc' = "cleaned_text"
    /\ UNCHANGED <<args, raw_arg, sanitized, view, sessions, address, store, best, best_ratio,
                   cache_raised, attempt, wait_attempt, last_error, open_drivers, opened,
                   driver_calls, option_ratio, sleeps, property_data, property_id, steps,
                   swallowed, result>>

\* lines 21-31: _clean_text of a value _clean_text returned
CleanTextAgain ==
    /\ pc = "cleaned_text"
    /\ ret' = _clean_text(ret)
    /\ pc' = "text_again"
    /\ UNCHANGED <<args, raw_arg, sanitized, view, sessions, address, store, best, best_ratio,
                   cache_raised, attempt, wait_attempt, last_error, open_drivers, opened,
                   driver_calls, option_ratio, sleeps, property_data, property_id, steps,
                   swallowed, result>>

\* lines 41-47: _clean_distance(value)
CleanDistance ==
    /\ pc = "clean"
    /\ ret' = _clean_distance(args)
    /\ pc' = "cleaned_distance"
    /\ UNCHANGED <<args, raw_arg, sanitized, view, sessions, address, store, best, best_ratio,
                   cache_raised, attempt, wait_attempt, last_error, open_drivers, opened,
                   driver_calls, option_ratio, sleeps, property_data, property_id, steps,
                   swallowed, result>>

\* lines 41-47: _clean_distance of a value _clean_distance returned
CleanDistanceAgain ==
    /\ pc = "cleaned_distance"
    /\ ret' = _clean_distance(ret)
    /\ pc' = "distance_again"
    /\ UNCHANGED <<args, raw_arg, sanitized, view, sessions, address, store, best, best_ratio,
                   cache_raised, attempt, wait_attempt, last_error, open_drivers, opened,
                   driver_calls, option_ratio, sleeps, property_data, property_id, steps,
                   swallowed, result>>

NextClean == CleanText \/ CleanTextAgain \/ CleanDistance \/ CleanDistanceAgain

SpecClean == InitClean /\ [][NextClean]_vars

(***************************************************************************)
(* The address matcher on its own: the query and the stored rows it is     *)
(* applied to, the in-process lookup and the scoring of a suggestion.      *)
(***************************************************************************)
MaxAddrLen == 3

AddrAlphabet == {"a", "b", "c"}

\* two addresses of eight and six letters, an address of blanks only, and
\* an address with capitals and a run of blanks
AddrExamples ==
    {<<"c", "b", "a", "c", "a", "c", "b", "a">>, <<"b", "a", "c", "c", "b", "a">>,
     <<" ">>, <<"A", " ", " ", "b">>}

AddrTexts == {PStr(s) : s \in UNION {[1..n -> AddrAlphabet] : n \in 0..MaxAddrLen} \cup AddrExamples}

\* the addresses of the tables of three rows
SomeAddrs == {PStr(<<"a">>), PStr(<<"a", "b">>), PStr(<<"b", "c">>), PStr(<<"A", "B">>)}

\* the rows of SELECT * FROM properties: one row, its address a text or
\* NULL, two rows of which the first has no address, or three rows
MatchRows ==
    {<<[id |-> 1, address |-> a]>> : a \in AddrTexts \cup {PNone}}
    \cup {<<[id |-> 1, address |-> a], [id |-> 2, address |-> b]>> :
              a \in {PNone, Empty}, b \in {Empty, PStr(<<"a", "b", "c">>)}}
    \cup {<<[id |-> 1, address |-> a], [id |-> 2, address |-> b], [id |-> 3, address |-> c]>> :
              a \in SomeAddrs, b \in SomeAddrs, c \in SomeAddrs}

InitMatch ==
    /\ pc = "match"
    /\ NoSession
    /\ raw_arg = <<>>
    /\ sanitized = PNone
    /\ args \in [address : AddrTexts, rows : MatchRows]
    /\ ret = PNone

\* lines 686-698: the in-process lookup over the rows
FallbackLookup ==
    /\ pc = "match"
    /\ ret' = FallbackMatch([properties |-> args.rows], args.address)
    /\ pc' = "looked_up"
    /\ UNCHANGED <<args, raw_arg, sanitized, view, sessions, address, store, best, best_ratio,
                   cache_raised, attempt, wait_attempt, last_error, open_drivers, opened,
                   driver_calls, option_ratio, sleeps, property_data, property_id, steps,
                   swallowed, result>>

\* lines 1007-1016: the similarity of the input and the text of an option
OptionSimilarity ==
    /\ pc = "match"
    /\ args.rows[1].address # PNone
    /\ ret' = OptionRatio(args.address, args.rows[1].address)
    /\ pc' = "option_scored"
    /\ UNCHANGED <<args, raw_arg, sanitized, view, sessions, address, store, best, best_ratio,
                   cache_raised, attempt, wait_attempt, last_error, open_drivers, opened,
                   driver_calls, option_ratio, sleeps, property_data, property_id, steps,
                   swallowed, result>>

NextMatch == FallbackLookup \/ OptionSimilarity

SpecMatch == InitMatch /\ [][NextMatch]_vars

C2_LowSimilarityEndsCall ==
    [][(pc = "dropdown" /\ option_ratio' # NoRatio
            /\ ~RatioAtLeast(option_ratio', SuggestionThresholdPct))
        => /\ pc' = "done"
           /\ result' = Envelope(FALSE, MsgLowSimilarity, "similarity", PNone)
           /\ steps' = steps
           /\ attempt' = attempt
           /\ last_error' = last_error
           /\ sleeps' = sleeps
           /\ opened' = opened
           /\ open_drivers' = open_drivers - 1]_vars

\* the second attempt of a call rejects an option that is 6/7 similar
C2_Witness ==
    /\ pc = "done"
    /\ result.message.text = MsgLowSimilarity
    /\ option_ratio = [num |-> 6, den |-> 7]
    /\ attempt = 1
    /\ sleeps = <<2>>

\* C3: when the results view shows the 'results for' marker the call ends
\* at once with the ambiguity failure, which is not the failure of
\* exhausted attempts: nothing is extracted or stored, no backoff is slept
\* and no further attempt starts, whatever the number of the attempt.
C3_MarkerEndsCall ==
    [][(pc = "ambiguity" /\ view = "marker")
        => /\ pc' = "done"
           /\ result' = Envelope(FALSE, MsgAmbiguous, "", PNone)
           /\ result'.message.text # MsgExhausted
           /\ property_data' = PNone
           /\ store' = store
           /\ steps' = steps
           /\ attempt' = attempt
           /\ last_error' = last_error
           /\ sleeps' = sleeps
           /\ opened' = opened]_vars

\* the third attempt of a call reads the marker
C3_Witness ==
    /\ pc = "done"
    /\ result.message.text = MsgAmbiguous
    /\ view = "marker"
    /\ attempt = 2

\* C4: a call never runs more than 3 attempts; when all of them fail it
\* ends after exactly 3 attempts with success = false and a message that
\* holds the error of the last failed attempt.
C4_AtMostThreeAttempts ==
    /\ attempt <= 3
    /\ opened <= 3
    /\ attempt = 3 => /\ pc = "done"
                      /\ opened = 3
                      /\ last_error.attempt = 3
                      /\ result = Envelope(FALSE, MsgExhausted, last_error.error, PNone)
    /\ result.message.text = MsgExhausted => attempt = 3

\* three attempts failed, the last one at the read back
C4_Witness ==
    /\ pc = "done"
    /\ attempt = 3
    /\ result.message.text = MsgExhausted
    /\ result.message.detail = "read back error"

\* C5: the backoff after attempt n is 2 * n seconds and is slept only
\* between a failed attempt and the next one: a call that ends has slept
\* one delay less than it started attempts, two when it succeeds on the
\* third attempt.
C5_BackoffOnlyBetweenAttempts ==
    /\ \A n \in 1..Len(sleeps) : sleeps[n] = BackoffBase * n
    /\ (pc = "done" /\ opened > 0) => Len(sleeps) = opened - 1

\* C6: every browser session an attempt creates is quit on every way out
\* of the attempt, so none is open when the call returns or raises, and at
\* most one is open at any time.
C6_NoSessionLeftOpen ==
    /\ open_drivers <= 1
    /\ pc \in {"idle", "done", "raised"} => open_drivers = 0

\* C7: the call always returns an envelope and never raises to its caller;
\* the data is a record exactly when success is true.
C7_AlwaysAnEnvelope ==
    /\ pc # "raised"
    /\ pc = "done" => (result.success <=> result.data # PNone)

\* C8: on the scrape path success is returned only after the record was
\* stored and read back: the data is _transform_for_api of the fragments
\* read back for the returned id, not of the extracted record, and the
\* attempt ran extract, persist, read back in this order.
C8_ReturnsWhatWasReadBack ==
    (pc = "done" /\ result.success /\ opened > 0)
        => /\ steps = <<"select", "extract", "persist", "readback">>
           /\ PropertyRows(store, property_id) # <<>>
           /\ result.data = _transform_for_api(ReadBackRaw(store, PropertyRows(store, property_id)[1],
                                                           Now(sessions)))
           /\ result.data # _transform_for_api(property_data)
           /\ result.data.id = PNum(property_id)

\* a call that scraped the full page returns it
C8_Witness ==
    /\ pc = "done"
    /\ result.success
    /\ result.message.text = MsgScraped
    /\ property_data = FullPage(T("u1"), AddrABC, Now(sessions))

\* C9: for every stored property the raw mapping of the cache-hit path and
\* the raw mapping of the read-back path are the same, field for field.
C9_SameRawOnBothPaths ==
    \A i \in 1..Len(store.properties) :
        CacheHitRaw(store, store.properties[i], T("t1")) = ReadBackRaw(store, store.properties[i], T("t1"))

\* the sum of len(v) over the values of the keys ks of an object
RECURSIVE SumOfLengths(_, _)
SumOfLengths(obj, ks) ==
    IF ks = {} THEN 0
    ELSE LET k == CHOOSE x \in ks : TRUE
         IN PLen(obj.m[k]) + SumOfLengths(obj, ks \ {k})

\* C10: for every raw mapping the history that _transform_for_api returns
\* has total_events equal to the sum of the lengths of the lists of
\* events_by_type.
C10_TotalIsSumOfLists ==
    pc = "returned"
        => /\ {"events_by_type", "total_events"} \subseteq DOMAIN sanitized.history.m
           /\ sanitized.history.m["total_events"]
                = PNum(SumOfLengths(sanitized.history.m["events_by_type"],
                                    DOMAIN sanitized.history.m["events_by_type"].m))

\* C11: when Property_History_All holds an object with events_by_type,
\* total_events and a flat events list, the history that _transform_for_api
\* returns has the keys events_by_type and total_events and no other key.
C11_OnlyBundleKeys ==
    (/\ pc = "returned"
     /\ "Property_History_All" \in DOMAIN raw_arg
     /\ IsDict(_try_parse_json(raw_arg["Property_History_All"]))
     /\ {"events_by_type", "total_events", "events"}
            \subseteq DOMAIN _try_parse_json(raw_arg["Property_History_All"]).m)
        => DOMAIN sanitized.history.m = {"events_by_type", "total_events"}

\* C12: when no history field holds a bundle (an object with
\* events_by_type), the history that _transform_for_api returns files the
\* events list of every per-category field that parses to an object with
\* an events list under the key of its category, and an empty list for a
\* field that is absent, empty or not JSON, whatever the other fields hold.
C12_CategoriesCombined ==
    LET parsed(f) == IF f \in DOMAIN raw_arg THEN _try_parse_json(raw_arg[f]) ELSE PNone
        isBundle(v) == IsDict(v) /\ "events_by_type" \in DOMAIN v.m
        key == [Property_History_Sale |-> "sale", Property_History_Listing |-> "listing",
                Property_History_Rental |-> "rental", Property_History_DA |-> "da"]
        h == sanitized.history
    IN (/\ pc = "returned"
        /\ \A f \in DOMAIN key \cup {"Property_History_All"} : ~isBundle(parsed(f)))
           => /\ IsDict(h)
              /\ "events_by_type" \in DOMAIN h.m
              /\ IsDict(h.m["events_by_type"])
              /\ \A f \in DOMAIN key :
                    /\ key[f] \in DOMAIN h.m["events_by_type"].m
                    /\ IF IsDict(parsed(f)) /\ "events" \in DOMAIN parsed(f).m
                       THEN IsList(parsed(f).m["events"])
                                => h.m["events_by_type"].m[key[f]] = parsed(f).m["events"]
                       ELSE parsed(f) = PNone => h.m["events_by_type"].m[key[f]] = EmptyList

\* C13: for every raw mapping the history that _transform_for_api returns
\* is an object whose events_by_type holds each of the keys sale, rental,
\* listing, da and other, each with a list as its value.
C13_EveryCategoryPresent ==
    pc = "returned"
        => /\ IsDict(sanitized.history)
           /\ "events_by_type" \in DOMAIN sanitized.history.m
           /\ IsDict(sanitized.history.m["events_by_type"])
           /\ \A k \in {"sale", "rental", "listing", "da", "other"} :
                 /\ k \in DOMAIN sanitized.history.m["events_by_type"].m
                 /\ IsList(sanitized.history.m["events_by_type"].m[k])

\* the number of events a bundle files under a category, 0 without the key
CountIn(bundle, k) ==
    IF k \in DOMAIN bundle.m["events_by_type"].m THEN PLen(bundle.m["events_by_type"].m[k]) ELSE 0

\* C14: a call that scraped a record whose Property_History_All holds a
\* bundle returns, from the rows it stored and read back, a history with
\* the same number of events in every category and the same total_events
\* as that bundle.
C14_HistoryRoundTrip ==
    LET before == _try_parse_json(property_data["Property_History_All"])
        after == result.data.history
    IN (/\ pc = "done"
        /\ result.success
        /\ opened > 0
        /\ IsDict(before)
        /\ {"events_by_type", "total_events"} \subseteq DOMAIN before.m)
           => /\ IsDict(after)
              /\ {"events_by_type", "total_events"} \subseteq DOMAIN after.m
              /\ after.m["total_events"] = before.m["total_events"]
              /\ \A k \in {"sale", "rental", "listing", "da", "other"} : CountIn(after, k) = CountIn(before, k)

\* C15: in the record _transform_for_api returns no field of the
\* sub-documents lastSold, sale, agent, additional, household, valuation,
\* schools and history is None.
C15_NoNoneInSubDocuments ==
    pc = "returned"
        => /\ \A d \in {"lastSold", "sale", "agent", "additional", "household", "valuation", "schools"} :
                 \A f \in DOMAIN sanitized[d] : sanitized[d][f] # PNone
           /\ sanitized.history # PNone
           /\ IsDict(sanitized.history)
                 => \A f \in DOMAIN sanitized.history.m : sanitized.history.m[f] # PNone

\* C16: _clean_text of what _clean_text returned is what it returned, and
\* likewise for _clean_distance; what _clean_text returns has no whitespace
\* and no slash at either end and no two slashes in a row.
C16_CleanIsIdempotent ==
    /\ pc = "text_again" => ret = _clean_text(args)
    /\ pc = "distance_again" => ret = _clean_distance(args)
    /\ (pc = "cleaned_text" /\ ret.s # <<>>)
           => /\ ret.s[1] \notin WhitespaceChars \cup SlashChars
              /\ ret.s[Len(ret.s)] \notin WhitespaceChars \cup SlashChars
              /\ \A i \in 1..(Len(ret.s) - 1) : ~(ret.s[i] = "/" /\ ret.s[i + 1] = "/")

\* a text without its spaces
Unspaced(s) == SelectSeq(s, LAMBDA c : c # " ")

\* km or m in either case starts at position j and no letter or digit follows it
IsUnitTokenAt(s, j) ==
    LET ends(k) == k > Len(s) \/ s[k] \in {" ", "\t", "\n", "/", "\\", ".", ",", "|", ":", "(", ")"}
    IN \/ j + 1 <= Len(s) /\ s[j] \in {"k", "K"} /\ s[j + 1] \in {"m", "M"} /\ ends(j + 2)
       \/ j <= Len(s) /\ s[j] \in {"m", "M"} /\ ends(j + 1)

\* C17: _clean_distance returns the _clean_text of its input with one space
\* put between a digit and the unit token km or m that follows it at once:
\* nothing but spaces is added, one for each such digit, no digit is left
\* with a unit token right after it, and a text without such a digit is
\* returned as _clean_text returns it; '0.82km' gives '0.82 km', '1.5 M'
\* and '5min' are returned unchanged.
C17_UnitsSpaced ==
    pc = "cleaned_distance"
        => LET t == _clean_text(args).s
               out == ret.s
               glued == {i \in 1..Len(t) : t[i] \in DigitChars /\ IsUnitTokenAt(t, i + 1)}
           IN /\ Unspaced(out) = Unspaced(t)
              /\ Len(out) = Len(t) + Cardinality(glued)
              /\ \A i \in 1..Len(out) : out[i] \in DigitChars => ~IsUnitTokenAt(out, i + 1)
              /\ glued = {} => out = t
              /\ args.s = <<"0", ".", "8", "2", "k", "m">> => out = <<"0", ".", "8", "2", " ", "k", "m">>
              /\ args.s = <<"1", ".", "5", " ", "M">> => out = args.s
              /\ args.s = <<"5", "m", "i", "n">> => out = args.s

\* the three distances of the claim went through _clean_distance
C17_Witness ==
    /\ pc = "cleaned_distance"
    /\ \/ args.s = <<"0", ".", "8", "2", "k", "m">> /\ ret.s = <<"0", ".", "8", "2", " ", "k", "m">>
       \/ args.s = <<"5", "m", "i", "n">> /\ ret.s = args.s

\* C18: _transform_for_api raises for no raw mapping whose values are all
\* strings, whatever JSON or other text they hold.
C18_StringsNeverRaise ==
    (\A f \in DOMAIN raw_arg : raw_arg[f].t \in {"s", "j"}) => pc # "transform_raised"

\* two ratios are the same number
SameRatio(r1, r2) == r1.num * r2.den = r2.num * r1.den

\* C19: the similarity of two addresses is the same whichever of the two
\* is passed first, and so is the decision to reuse a stored row.
C19_SimilarityIsSymmetric ==
    /\ pc = "option_scored" => SameRatio(ret, OptionRatio(args.rows[1].address, args.address))
    /\ (pc = "looked_up" /\ Len(args.rows) = 1 /\ args.rows[1].address # PNone)
           => (IsReusable(ret)
                  <=> IsReusable(FallbackMatch([properties |-> <<[id |-> 1, address |-> args.address]>>],
                                               args.rows[1].address)))

\* C20: when the query normalizes to the empty string, or the address of
\* a stored row is empty or NULL, the similarity of the two is 0.0 and the
\* lookup does not select that row.
C20_DegenerateScoresZero ==
    /\ pc = "looked_up"
           => \A i \in 1..Len(args.rows) :
                 (_norm(args.address) = <<>> \/ _norm(args.rows[i].address) = <<>>)
                     => /\ ret.best # args.rows[i]
                        /\ SameRatio(ratio(_norm(args.address), _norm(args.rows[i].address)), ZeroRatio)
    /\ (pc = "option_scored" /\ (_norm(args.address) = <<>> \/ _norm(args.rows[1].address) = <<>>))
           => SameRatio(ret, ZeroRatio)

\* C21: the in-process lookup returns the row whose similarity to the
\* query is the greatest, the first of them in the order of the rows when
\* several share it, together with that similarity; when no row scores
\* above 0.0 it returns no row and the similarity 0.0.
C21_FirstOfTheBest ==
    pc = "looked_up"
        => LET score(i) == ratio(_norm(args.address), _norm(args.rows[i].address))
               top == {i \in 1..Len(args.rows) :
                          \A j \in 1..Len(args.rows) : ~RatioGreater(score(j), score(i))}
               first == CHOOSE i \in top : \A j \in top : i <= j
           IN IF \E i \in 1..Len(args.rows) : score(i).num > 0
              THEN ret.best = args.rows[first] /\ SameRatio(ret.best_ratio, score(first))
              ELSE ret.best = <<>> /\ ret.best_ratio = ZeroRatio

\* the second and the third of three rows share the greatest similarity
\* and the lookup returned the second
C21_Witness ==
    /\ pc = "looked_up"
    /\ Len(args.rows) = 3
    /\ args.rows[2].address = args.rows[3].address
    /\ args.rows[1].address # args.rows[2].address
    /\ ret.best = args.rows[2]
    /\ ret.best_ratio.num > 0

\* C22: a record that extraction returned without an address is never
\* passed on: it is not stored, and a call that scraped does not return
\* success with it.
C22_NoAddressNeverStored ==
    /\ pc = "read_back" => Truthy(property_data["Address"])
    /\ (pc = "done" /\ result.success /\ opened > 0) => Truthy(property_data["Address"])

\* C23: no attempt goes on to a later step after a step of it raised: an
\* exception of the login, of the ambiguity probe or of the wait for the
\* results is never only logged, and no call returns success from an
\* attempt in which a step raised.
C23_NoExceptionOnlyLogged ==
    /\ ~swallowed
    /\ (pc = "done" /\ result.success) => ~swallowed

\* the tables of child rows
ChildTables ==
    {"sale_rental_info", "nearby_schools", "household_info", "additional_info",
     "property_attributes", "property_history", "valuation_estimates"}

\* the store without the child rows of a property
WithoutChildren(st, pid) ==
    [k \in DOMAIN st |-> IF k \in ChildTables THEN DeleteOf(st[k], pid) ELSE st[k]]

\* the child rows of a property in a table
ChildRows(st, table, pid) == SelectSeq(st[table], LAMBDA r : r.property_id = pid)

\* C24: once insert_property_data has written a record, the child rows of
\* its property are the rows the same write leaves in a store that held no
\* child row of the property: no row of an earlier write remains.
C24_ChildrenReplacedWholesale ==
    pc = "read_back"
        => \A table \in ChildTables :
              ChildRows(store, table, property_id)
                  = ChildRows(InsertedStore(WithoutChildren(store, property_id), property_data),
                              table, property_id)

\* C25: the properties table never holds two rows of one property URL, the
\* id insert_property_data returns for a URL is the id of the row of that
\* URL, the same at every write, and the scalar attributes of the row are
\* those of the record written last.
C25_OneRowPerUrl ==
    /\ \A i, j \in 1..Len(store.properties) :
          store.properties[i].property_url = store.properties[j].property_url => i = j
    /\ \A i, j \in 1..Len(store.properties) : store.properties[i].id = store.properties[j].id => i = j
    /\ pc = "read_back"
          => /\ Len(PropertyRows(store, property_id)) = 1
             /\ LET row == PropertyRows(store, property_id)[1]
                IN /\ row.property_url = property_data["Property_URL"]
                   /\ row.address = property_data["Address"]
                   /\ row.property_type = property_data["Property_Type"]
                   /\ row.land_size = property_data["Land_Size"]
                   /\ row.floor_area = property_data["Floor_Area"]
                   /\ row.bedrooms = property_data["Bedrooms"]
                   /\ row.bathrooms = property_data["Bathrooms"]
                   /\ row.car_spaces = property_data["Car_Spaces"]

\* a second write of a URL, with other attributes, returned the id of the
\* first: the sale row of the first write is there, the bedrooms are the new
C25_Witness ==
    /\ pc = "read_back"
    /\ Len(store.properties) = 1
    /\ property_id = 1
    /\ property_data["Bedrooms"] = T("-")
    /\ store.sale_rental_info # <<>>
    /\ PropertyRows(store, 1)[1].bedrooms = T("-")

\* the events a bundle files under the key k are of type k, one of the five
FiledByType(bundle) ==
    (IsDict(bundle) /\ "events_by_type" \in DOMAIN bundle.m /\ IsDict(bundle.m["events_by_type"]))
        => \A k \in DOMAIN bundle.m["events_by_type"].m :
              LET events == bundle.m["events_by_type"].m[k]
              IN IsList(events)
                    => \A i \in 1..Len(events.xs) :
                          /\ IsDict(events.xs[i])
                          /\ "type" \in DOMAIN events.xs[i].m
                          /\ events.xs[i].m["type"].s = <<k>>
                          /\ k \in {"sale", "rental", "listing", "da", "other"}

\* C26: every event of a history bundle, in the record the extraction built
\* and in the history of a successful result, has one of the types sale,
\* rental, listing, da and other and is filed under the key of its type.
C26_EventsFiledUnderTheirType ==
    /\ pc = "persist" => FiledByType(_try_parse_json(property_data["Property_History_All"]))
    /\ (pc = "done" /\ result.success) => FiledByType(result.data.history)

\* C27: a call that returns success = false leaves the store as it was when
\* the call began; for the first call, which begins on the empty store, the
\* store is empty when it returns a failure.
C27_FailureLeavesStoreUnchanged ==
    (sessions = 1 /\ pc = "done" /\ ~result.success) => store = EmptyStore

\* C28: the step that leaves the cache check either returns a success or
\* goes on to the first attempt of the scrape path, with no attempt used, no
\* browser session opened, no delay slept and no last error recorded: a
\* lookup that raises or finds no row scoring 0.85 never fails the call.
C28_CacheCheckNeverFails ==
    [][pc = "check_cache"
          => IF pc' = "done"
             THEN result'.success
             ELSE /\ pc' = "create_driver"
                  /\ attempt' = 0
                  /\ max_attempts - attempt' = 3
                  /\ opened' = 0
                  /\ sleeps' = <<>>
                  /\ last_error' = NoError]_vars

\* the lookup of a call on a store with a row has raised and the call stands
\* before its first attempt
C28_Witness ==
    /\ cache_raised
    /\ store.properties # <<>>
    /\ pc = "create_driver"
    /\ attempt = 0
    /\ opened = 0
    /\ last_error = NoError

(***************************************************************************)
(* The call as a running function: every browser and database call returns *)
(* or raises, so a call that has begun takes its next step.  When the next *)
(* call is made is up to the caller.                                       *)
(***************************************************************************)
Running == pc \notin {"idle", "done", "raised"}

SpecLive == Init /\ [][Next]_vars /\ WF_vars(Running /\ Next)

\* C29: every call that has begun reaches a terminal state of its own with a
\* result: the return of a cache hit, of a success, of an input-quality
\* failure or of the exhausted attempts.
C29_CallReturnsAResult ==
    \A n \in 1..MaxSessions : (pc = "check_cache" /\ sessions = n) ~> (pc = "done" /\ sessions = n)

\* C30: when no autocomplete option is found, or the first option never
\* appears, the call ends at once with the 'Address not found' failure: the
\* browser session is quit, no option is selected, nothing is extracted or
\* stored, no backoff is slept, no attempt is consumed and no error of an
\* attempt is recorded, whatever the number of attempts left.
C30_NoSuggestionEndsCall ==
    [][DropdownEmpty
        => /\ pc' = "done"
           /\ ~result'.success
           /\ result'.message.text = MsgNotFound
           /\ result'.message.text # MsgExhausted
           /\ result'.data = PNone
           /\ steps' = <<>>
           /\ option_ratio' = NoRatio
           /\ property_data' = PNone
           /\ property_id' = 0
           /\ store' = store
           /\ sleeps' = sleeps
           /\ attempt' = attempt
           /\ last_error' = last_error
           /\ opened' = opened
           /\ open_drivers' = open_drivers - 1]_vars

\* the second of three attempts found no option, and the call has ended
C30_Witness ==
    /\ pc = "done"
    /\ result.message.text = MsgNotFound
    /\ attempt = 1
    /\ attempt + 1 < max_attempts
    /\ sleeps = <<2>>
    /\ open_drivers = 0

====
